---- MODULE Spec2Model ----
(***************************************************************************)
(* The markdown rendering pipeline of apps/web-publish/src/lib/markdown.ts *)
(* as a state machine: the module-level render state (mathStore,           *)
(* mathCounter, _renderContext) and the renderMarkdown calls that share    *)
(* it.  A call runs from its entry to its `await` in one step and from the *)
(* `await` to its return in a second step (JavaScript runs each of them to *)
(* completion); other calls may run between the two.                       *)
(*                                                                         *)
(* Strings are modelled as sequences of atoms: a piece of text, a math     *)
(* span of the source, a math placeholder id, rendered KaTeX markup.       *)
(* HTML is a sequence of element nodes in document order, each with its    *)
(* attributes (in source order) and its text content.                      *)
(***************************************************************************)
EXTENDS Integers, Sequences, FiniteSets, TLC

\* ------------------------------------------------------------------------
\* Bounds
\* ------------------------------------------------------------------------

\* Number of renderMarkdown calls that may be in flight at the same time.
MaxCalls == 2

\* Number of items of a document in the single-call specifications.
MaxItems == 2

\* undefined, for a value that is a string when it is defined.
Undefined == "undefined"

\* An optional value that is no string: None is undefined, Some(x) is x.
None == <<>>
Some(x) == <<x>>

\* ------------------------------------------------------------------------
\* Atoms of text
\* ------------------------------------------------------------------------

\* A piece of literal text; esc tells whether it went through HTML escaping.
Txt(s) == [k |-> "txt", s |-> s, esc |-> FALSE]

\* A math span of the source: $expression$ or $$expression$$.
MathSpan(e, d) == [k |-> "math", expression |-> e, displayMode |-> d]

\* The markup KaTeX returns for an expression.
Katex(e, d) == [k |-> "katex", expression |-> e, displayMode |-> d]

\* The fallback of restoreMath for an expression KaTeX threw on.
KatexError(e, d) == [k |-> "katexError", expression |-> e, displayMode |-> d]

\* What is left of a placeholder id once an HTML parser dropped its NULs.
PhResidue(n) == [k |-> "phResidue", n |-> n]

\* Expressions on which katex.renderToString throws although throwOnError
\* is false (an error that is no ParseError).
KatexThrowing == {"bad", "&x"}

\* The fallback as html.replace wrote it when the wrapper, used as a
\* replacement string, held the pattern $& : the placeholder id n that was
\* matched stands where the $ and the & of the expression were.
KatexErrorSubst(e, d, n) ==
    [k |-> "katexErrorSubst", expression |-> e, displayMode |-> d, matched |-> n]

\* Expressions of the model that start with &.
AmpFirst == {"&x"}

RECURSIVE Concat(_)
\* The concatenation of a sequence of sequences.
Concat(ss) == IF ss = <<>> THEN <<>> ELSE Head(ss) \o Concat(Tail(ss))

\* ------------------------------------------------------------------------
\* HTML escaping
\* ------------------------------------------------------------------------

\* escapeHtml: & < > " become entities; the other characters, those of a
\* placeholder id included, are kept.
escapeHtml(str) ==
    [i \in DOMAIN str |->
        IF str[i].k = "txt" THEN [str[i] EXCEPT !.esc = TRUE] ELSE str[i]]

\* ------------------------------------------------------------------------
\* Math placeholder system
\* ------------------------------------------------------------------------

\* `${MATH_PLACEHOLDER_PREFIX}${n}${MATH_PLACEHOLDER_SUFFIX}`
PlaceholderId(n) == [k |-> "ph", n |-> n]

\* resetMathStore: a new empty Map and counter 0.  The Map is modelled as
\* the sequence of its entries in insertion order.
EmptyStore == [store |-> <<>>, counter |-> 0]

\* Map.set: the value of an existing key is replaced in place, a new key
\* is appended.
MapSet(store, id, expression, displayMode) ==
    LET e == [id |-> id, expression |-> expression, displayMode |-> displayMode]
    IN  IF \E i \in DOMAIN store : store[i].id = id
        THEN [i \in DOMAIN store |-> IF store[i].id = id THEN e ELSE store[i]]
        ELSE Append(store, e)

\* createMathPlaceholder: the id is made from the counter, the counter is
\* incremented and the entry is set in the store.
createMathPlaceholder(ms, expression, displayMode) ==
    [id |-> PlaceholderId(ms.counter),
     ms |-> [store   |-> MapSet(ms.store, PlaceholderId(ms.counter),
                                expression, displayMode),
             counter |-> ms.counter + 1]]

\* ------------------------------------------------------------------------
\* Documents
\* ------------------------------------------------------------------------
\* A markdown document is the sequence of the syntactic items its text is
\* made of.  Every item has a body, a sequence of atoms in which a math
\* span $..$ / $$..$$ of the text is one MathSpan atom:
\*   frontmatter  a leading ---\n...\n--- block
\*   comment      %%...%%
\*   para         a paragraph of text
\*   embed        ![[body]] or ![[body|size]], "." being an atom of its own
\*   blockquote   a block quote, body being its text without the > markers:
\*                "[!", "]", "+", "-", " ", "\n" (line end) and "\n\n"
\*                (blank line) are atoms of their own
\*   html         raw HTML written in the markdown
\*   link         [body](href)
\*   highlight    ==body==
\*   wikilink     [[body]], "|" and a leading "#" being atoms of their own
\*   code         a fenced code block with info string lang
\*   listitem     - [status] body
\* NotAString stands for an argument that is no string (undefined, null).

NotAString == <<[k |-> "notAString", body |-> <<>>]>>

\* An argument that is no string either, and truthy: a number.
ANumber == <<[k |-> "notAString", body |-> <<[k |-> "txt", s |-> "42", esc |-> FALSE]>>]>>

NonStrings == {NotAString, ANumber}

Frontmatter(body) == [k |-> "frontmatter", body |-> body]
Comment(body)     == [k |-> "comment", body |-> body]
Para(body)        == [k |-> "para", body |-> body]
Embed(body, size) == [k |-> "embed", body |-> body, size |-> size]
Blockquote(body)  == [k |-> "blockquote", body |-> body]
Html(body)        == [k |-> "html", body |-> body]
Link(href, body)  == [k |-> "link", href |-> href, body |-> body]
Highlight(body)   == [k |-> "highlight", body |-> body]
Wikilink(body)    == [k |-> "wikilink", body |-> body]
Code(lang, body)  == [k |-> "code", lang |-> lang, body |-> body]
ListItem(status, body) == [k |-> "listitem", status |-> status, body |-> body]

\* Items whose text protectMath replaces by a code sentinel before it looks
\* for math.
CodeKinds == {"code"}

\* ------------------------------------------------------------------------
\* Preprocessing pipeline
\* ------------------------------------------------------------------------

\* String.prototype.trim on the expressions of the model.
Trim(s) == IF s = " c " THEN "c" ELSE s

\* stripComments: every %%...%% is removed.
stripComments(text) == SelectSeq(text, LAMBDA it : it.k # "comment")

\* stripFrontmatter: a ---\n...\n--- block at the very start is removed.
stripFrontmatter(text) ==
    IF text # <<>> /\ Head(text).k = "frontmatter" THEN Tail(text) ELSE text

RECURSIVE ReplaceSpans(_, _, _)
\* One result.replace(regex, callback) of protectMath over one run of
\* text: every span of the given mode, left to right, is replaced by a new
\* placeholder id.  Display expressions are trimmed.
ReplaceSpans(str, ms, d) ==
    IF str = <<>> THEN [str |-> <<>>, ms |-> ms]
    ELSE LET h == Head(str) IN
         IF h.k = "math" /\ h.displayMode = d
         THEN LET c == createMathPlaceholder(
                           ms, IF d THEN Trim(h.expression) ELSE h.expression, d)
                  r == ReplaceSpans(Tail(str), c.ms, d)
              IN  [str |-> <<c.id>> \o r.str, ms |-> r.ms]
         ELSE LET r == ReplaceSpans(Tail(str), ms, d)
              IN  [str |-> <<h>> \o r.str, ms |-> r.ms]

RECURSIVE ReplaceInText(_, _, _)
\* The same replace over the whole text; code is behind sentinels and is
\* not looked at.
ReplaceInText(text, ms, d) ==
    IF text = <<>> THEN [text |-> <<>>, ms |-> ms]
    ELSE LET it == Head(text)
             r1 == IF it.k \in CodeKinds
                   THEN [str |-> it.body, ms |-> ms]
                   ELSE ReplaceSpans(it.body, ms, d)
             r2 == ReplaceInText(Tail(text), r1.ms, d)
         IN  [text |-> <<[it EXCEPT !.body = r1.str]>> \o r2.text, ms |-> r2.ms]

\* protectMath: display math first, then inline math.
protectMath(text, ms) ==
    LET display == ReplaceInText(text, ms, TRUE)
    IN  ReplaceInText(display.text, display.ms, FALSE)

\* preprocessMarkdown: frontmatter, comments, math, in this order.  The
\* first replace throws a TypeError when raw is no string.
preprocessMarkdown(raw, ms) ==
    IF raw \in NonStrings
    THEN [threw |-> TRUE, text |-> <<>>, ms |-> ms]
    ELSE LET r == protectMath(stripComments(stripFrontmatter(raw)), ms)
         IN  [threw |-> FALSE, text |-> r.text, ms |-> r.ms]

\* ------------------------------------------------------------------------
\* HTML
\* ------------------------------------------------------------------------

\* Text of a template literal of the source.
Lit(s) == [k |-> "txt", s |-> s, esc |-> TRUE]

Attr(name, val) == [name |-> name, val |-> val]

\* An element: its tag, its attributes in source order and its own text.
\* The elements of a fragment are listed in document order; "#text" is
\* text outside any element of interest.
Node(tag, attrs, body) == [tag |-> tag, attrs |-> attrs, body |-> body]

Class(c) == Attr("class", <<Lit(c)>>)

Min(S) == CHOOSE x \in S : \A y \in S : x <= y
Max(S) == CHOOSE x \in S : \A y \in S : x >= y

\* All the text of an element, in the order it has in the HTML string.
NodeAtoms(n) == Concat([j \in DOMAIN n.attrs |-> n.attrs[j].val]) \o n.body

HasAtom(str, a) == \E i \in DOMAIN str : str[i] = a

\* ------------------------------------------------------------------------
\* Render context
\* ------------------------------------------------------------------------

\* {} : neither slug nor folderItems.
EmptyContext == [slug |-> Undefined, folderItems |-> None]

\* context || {}
ContextOrEmpty(context) == IF context = None THEN EmptyContext ELSE context[1]

\* ------------------------------------------------------------------------
\* Marked extensions: embeds
\* ------------------------------------------------------------------------

Dot == Txt(".")

\* String.prototype.toLowerCase on the extensions of the model.
Lower(s) == IF s = "PNG" THEN "png" ELSE s

imageExts == {"png", "jpg", "jpeg", "gif", "svg", "webp", "bmp", "ico"}
videoExts == {"mp4", "webm", "ogv", "mov"}
audioExts == {"mp3", "wav", "ogg", "flac", "m4a"}

\* target.split('.').pop()?.toLowerCase() || '' : the text after the last
\* ".", the whole target when it has none.  Text that is more than one
\* plain word is no extension of the lists and is given as "".
EmbedExt(target) ==
    LET dots == {i \in DOMAIN target : target[i] = Dot}
        last == IF dots = {} THEN target
                ELSE SubSeq(target, Max(dots) + 1, Len(target))
    IN  IF Len(last) = 1 /\ last[1].k = "txt" THEN Lower(last[1].s) ELSE ""

\* folderItems.find(item => item.path === target || item.path === `${target}.md`)
FindNote(folderItems, target) ==
    LET hits == {i \in DOMAIN folderItems :
                    \/ folderItems[i].path = target
                    \/ folderItems[i].path = target \o <<Dot, Txt("md")>>}
    IN  IF hits = {} THEN None ELSE Some(folderItems[Min(hits)])

\* embedExtension.renderer, rc being the value of _renderContext when the
\* renderer runs.
EmbedRenderer(token, rc) ==
    LET target     == token.body
        safeTarget == escapeHtml(target)
        safeSize   == escapeHtml(token.size)
        ext        == EmbedExt(target)
        noteItem   == IF rc.folderItems = None THEN None
                      ELSE FindNote(rc.folderItems[1], target)
    IN  IF ext \in imageExts THEN
            IF rc.slug # Undefined /\ rc.slug # "" THEN
                <<Node("img",
                       <<Class("obsidian-embed-image"),
                         Attr("src", <<Lit("/"), Txt(rc.slug), Lit("/_assets/")>>
                                     \o safeTarget),
                         Attr("alt", safeTarget)>>
                       \o (IF safeSize # <<>>
                           THEN <<Attr("style", <<Lit("max-width: ")>> \o safeSize
                                                \o <<Lit("px")>>)>>
                           ELSE <<>>),
                       <<>>)>>
            ELSE
                <<Node("div", <<Class("obsidian-embed obsidian-embed-image")>>,
                       <<Lit(" Image: ")>>
                       \o (IF safeSize # <<>>
                           THEN <<Lit(" (")>> \o safeSize \o <<Lit("px)")>>
                           ELSE <<>>)),
                  Node("span", <<Class("obsidian-embed-icon")>>, <<Lit("&#128444;")>>),
                  Node("strong", <<>>, safeTarget)>>
        ELSE IF ext \in videoExts THEN
            <<Node("div", <<Class("obsidian-embed obsidian-embed-video")>>,
                   <<Lit(" Video: ")>>),
              Node("span", <<Class("obsidian-embed-icon")>>, <<Lit("&#127909;")>>),
              Node("strong", <<>>, safeTarget)>>
        ELSE IF ext \in audioExts THEN
            <<Node("div", <<Class("obsidian-embed obsidian-embed-audio")>>,
                   <<Lit(" Audio: ")>>),
              Node("span", <<Class("obsidian-embed-icon")>>, <<Lit("&#127925;")>>),
              Node("strong", <<>>, safeTarget)>>
        ELSE IF noteItem # None THEN
            <<Node("div",
                   <<Class("obsidian-embed obsidian-embed-note obsidian-embed-note-found")>>,
                   <<>>),
              Node("span", <<Class("obsidian-embed-icon")>>, <<Lit("&#128196;")>>),
              Node("span", <<Class("obsidian-embed-note-name")>>,
                   escapeHtml(IF noteItem[1].name # "" THEN <<Txt(noteItem[1].name)>>
                              ELSE target)),
              Node("span", <<Class("obsidian-embed-note-hint")>>,
                   <<Lit("(in this folder)")>>)>>
        ELSE
            <<Node("div", <<Class("obsidian-embed obsidian-embed-note")>>,
                   <<Lit(" Embedded note: ")>>),
              Node("span", <<Class("obsidian-embed-icon")>>, <<Lit("&#128196;")>>),
              Node("strong", <<>>, safeTarget)>>

\* ------------------------------------------------------------------------
\* Text helpers
\* ------------------------------------------------------------------------

Nl == Txt("\n")
Space == Txt(" ")
ParaBreak == Txt("\n\n")

\* Texts of the model that are not made of word characters only (\w+).
NonWordTexts ==
    {" ", "\n", "\n\n", "[!", "]", "+", "-", ".", "#", "",
     "<script>alert(1)</script>", "<img src=x onerror=alert(1)>",
     "<a href=javascript:alert(1)>x</a>", "\"><script>alert(1)</script>",
     "<pre>\n\nx</pre>",
     "\" onclick=\"alert(1)", "javascript:alert(1)"}

IsWord(a) == a.k = "txt" /\ a.s \notin NonWordTexts

\* \s
IsSpace(a) == a = Space \/ a = Nl \/ a = ParaBreak

\* String.prototype.toLowerCase / charAt(0).toUpperCase() + slice(1) on
\* the callout types of the model.
LowerType(t) == IF t = "TIP" THEN "tip" ELSE t

Capitalize(t) ==
    CASE t = "note" -> "Note" [] t = "warning" -> "Warning" [] t = "tip" -> "Tip"
      [] t = "foo" -> "Foo" [] t = "constructor" -> "Constructor"
      [] OTHER -> t

RECURSIVE SplitOn(_, _)
\* str.split(sep)
SplitOn(str, sep) ==
    IF ~HasAtom(str, sep) THEN <<str>>
    ELSE LET i == Min({j \in DOMAIN str : str[j] = sep})
         IN  <<SubSeq(str, 1, i - 1)>> \o SplitOn(SubSeq(str, i + 1, Len(str)), sep)

RECURSIVE JoinWith(_, _)
\* parts.join(sep)
JoinWith(parts, sep) ==
    IF parts = <<>> THEN <<>>
    ELSE IF Len(parts) = 1 THEN parts[1]
    ELSE parts[1] \o <<sep>> \o JoinWith(Tail(parts), sep)

RECURSIVE TrimStart(_)
TrimStart(str) ==
    IF str # <<>> /\ IsSpace(Head(str)) THEN TrimStart(Tail(str)) ELSE str

RECURSIVE TrimEnd(_)
TrimEnd(str) ==
    IF str # <<>> /\ IsSpace(str[Len(str)])
    THEN TrimEnd(SubSeq(str, 1, Len(str) - 1)) ELSE str

\* String.prototype.trim
TrimStr(str) == TrimEnd(TrimStart(str))

\* ------------------------------------------------------------------------
\* Marked extensions: highlights and wikilinks
\* ------------------------------------------------------------------------

Pipe == Txt("|")
Hash == Txt("#")

\* highlightExtension.renderer
HighlightRenderer(token) == <<Node("mark", <<>>, escapeHtml(token.body))>>

\* wikilinkExtension.tokenizer: target and display of [[content]].
WikilinkToken(it) ==
    IF HasAtom(it.body, Pipe)
    THEN LET parts == SplitOn(it.body, Pipe)
         IN  [target |-> TrimStr(parts[1]),
              display |-> TrimStr(JoinWith(Tail(parts), Pipe))]
    ELSE [target |-> TrimStr(it.body), display |-> TrimStr(it.body)]

\* toLowerCase().replace(/[^\w\s-]/g, '').replace(/\s+/g, '-') on the
\* texts of the model; a placeholder id loses its NULs.
SlugText(a) ==
    IF a.k = "ph" THEN Lit("math_n")
    ELSE IF a.k # "txt" THEN a
    ELSE CASE a.s = "Heading" -> Txt("heading")
           [] a.s = " " -> Txt("-")
           [] a.s = "<script>alert(1)</script>" -> Txt("scriptalert1script")
           [] a.s = "\"><script>alert(1)</script>" -> Txt("scriptalert1script")
           [] OTHER -> a

\* A variant whose regular wikilinks navigate to their target.
WikilinkRendererLive(token) ==
    <<Node("a",
           <<Class("obsidian-wikilink"), Attr("href", escapeHtml(token.target))>>,
           escapeHtml(token.display))>>

\* wikilinkExtension.renderer
WikilinkRenderer(token) ==
    IF token.target # <<>> /\ token.target[1] = Hash
    THEN LET slug == [i \in DOMAIN Tail(token.target) |-> SlugText(Tail(token.target)[i])]
             text == IF token.display # <<>> /\ token.display[1] = Hash
                     THEN Tail(token.display) ELSE token.display
         IN  <<Node("a",
                    <<Class("obsidian-wikilink obsidian-wikilink-heading"),
                      Attr("href", <<Lit("#")>> \o escapeHtml(slug))>>,
                    escapeHtml(text))>>
    ELSE <<Node("a",
                <<Class("obsidian-wikilink"), Attr("href", <<Lit("#")>>),
                  Attr("data-wikilink-disabled", <<>>)>>,
                escapeHtml(token.display))>>

\* ------------------------------------------------------------------------
\* Marked extensions: callouts
\* ------------------------------------------------------------------------

\* Callout type metadata: icon (the code points of the source) and CSS
\* colour class suffix.
CALLOUT_TYPES ==
    [t \in {"note", "info", "todo", "abstract", "summary", "tldr", "tip", "hint",
            "important", "success", "check", "done", "question", "help", "faq",
            "warning", "caution", "attention", "failure", "fail", "missing",
            "danger", "error", "bug", "example", "quote", "cite"} |->
        CASE t \in {"note"}                          -> [icon |-> "U+270F U+FE0F", color |-> "blue"]
          [] t \in {"info"}                          -> [icon |-> "U+2139 U+FE0F", color |-> "blue"]
          [] t \in {"todo"}                          -> [icon |-> "U+2611 U+FE0F", color |-> "blue"]
          [] t \in {"abstract", "summary", "tldr"}   -> [icon |-> "U+1F4CB", color |-> "teal"]
          [] t \in {"tip", "hint", "important"}      -> [icon |-> "U+1F525", color |-> "cyan"]
          [] t \in {"success", "check", "done"}      -> [icon |-> "U+2705", color |-> "green"]
          [] t \in {"question", "help", "faq"}       -> [icon |-> "U+2753", color |-> "yellow"]
          [] t \in {"warning", "caution", "attention"} -> [icon |-> "U+26A0 U+FE0F", color |-> "orange"]
          [] t \in {"failure", "fail", "missing"}    -> [icon |-> "U+274C", color |-> "red"]
          [] t \in {"danger", "error"}               -> [icon |-> "U+26D4", color |-> "red-dark"]
          [] t \in {"bug"}                           -> [icon |-> "U+1F41B", color |-> "red"]
          [] t \in {"example"}                       -> [icon |-> "U+1F4DD", color |-> "purple"]
          [] t \in {"quote", "cite"}                 -> [icon |-> "U+275D", color |-> "gray"]]

\* The property names every object literal inherits from Object.prototype.
ObjectPrototypeKeys ==
    {"constructor", "__proto__", "hasOwnProperty", "isPrototypeOf",
     "propertyIsEnumerable", "toLocaleString", "toString", "valueOf",
     "__defineGetter__", "__defineSetter__", "__lookupGetter__", "__lookupSetter__"}

\* CALLOUT_TYPES[callout.type] || CALLOUT_TYPES['note'].  The property
\* read follows the prototype chain of the object literal: an inherited
\* property is an object (truthy) that has neither icon nor color.
CalloutMeta(type) ==
    IF type \in DOMAIN CALLOUT_TYPES THEN CALLOUT_TYPES[type]
    ELSE IF type \in ObjectPrototypeKeys THEN [icon |-> Undefined, color |-> Undefined]
    ELSE CALLOUT_TYPES["note"]

\* The lexer's tokens of a block quote: its text without the > markers is
\* split into paragraphs at the blank lines, and every paragraph gets its
\* inline tokens (one text token here).
ParagraphToken(raw) ==
    [type |-> "paragraph", raw |-> raw, text |-> raw,
     tokens |-> <<[type |-> "text", text |-> raw]>>]

BlockquoteToken(it) ==
    LET paras == SelectSeq(SplitOn(it.body, ParaBreak), LAMBDA p : p # <<>>)
    IN  [type |-> "blockquote",
         tokens |-> [i \in DOMAIN paras |-> ParagraphToken(paras[i])],
         callout |-> None]

\* rawText.match(/^\[!(\w+)\]([-+])?\s*(.*)/s): the groups, or no match.
\* \s* takes all the white space that follows, line ends included, and
\* with the s flag (.*) takes all the rest.
CalloutMatch(rawText) ==
    IF Len(rawText) >= 3 /\ rawText[1] = Txt("[!") /\ IsWord(rawText[2])
       /\ rawText[3] = Txt("]")
    THEN LET fold  == IF Len(rawText) >= 4 /\ rawText[4] \in {Txt("+"), Txt("-")}
                      THEN rawText[4].s ELSE ""
             after == SubSeq(rawText, IF fold = "" THEN 4 ELSE 5, Len(rawText))
         IN  Some([type |-> rawText[2].s, fold |-> fold, rest |-> TrimStart(after)])
    ELSE None

\* A variant that opens every foldable callout.
DefaultOpenMut(foldChar) == foldChar # ""

\* defaultOpen: foldChar !== '-'
DefaultOpen(foldChar) == foldChar # "-"

\* walkTokensForCallouts on a blockquote token.
walkTokensForCallouts(bq) ==
    IF bq.tokens = <<>> THEN bq
    ELSE IF bq.tokens[1].type # "paragraph" THEN bq
    ELSE
    LET para    == bq.tokens[1]
        rawText == IF para.raw # <<>> THEN para.raw ELSE para.text
        m       == CalloutMatch(rawText)
    IN  IF m = None THEN bq
        ELSE
        LET calloutType  == LowerType(m[1].type)
            foldChar     == m[1].fold
            titleAndRest == m[1].rest
            titleLines   == SplitOn(titleAndRest, Nl)
            title        == IF TrimStr(titleLines[1]) # <<>> THEN TrimStr(titleLines[1])
                            ELSE <<Txt(Capitalize(calloutType))>>
            callout      == [type |-> calloutType, title |-> title,
                             foldable |-> foldChar # "",
                             defaultOpen |-> DefaultOpen(foldChar)]
            remaining    == JoinWith(Tail(titleLines), Nl)
        IN  IF Len(titleLines) > 1
            THEN [bq EXCEPT !.callout = Some(callout),
                            !.tokens[1] = [para EXCEPT !.text = remaining,
                                                       !.raw = remaining,
                                                       !.tokens = <<>>]]
            ELSE [bq EXCEPT !.callout = Some(callout), !.tokens = Tail(bq.tokens)]

\* The escaping marked applies to the text of a text token.
MarkedEscape(str) ==
    [i \in DOMAIN str |->
        IF str[i].k = "txt" THEN [str[i] EXCEPT !.esc = TRUE] ELSE str[i]]

\* parser.parse(tokens) for the paragraphs of a block quote: a paragraph
\* is <p>, the rendering of its inline tokens, </p>.
ParseParagraphs(tokens) ==
    [i \in DOMAIN tokens |->
        Node("p", <<>>,
             Concat([j \in DOMAIN tokens[i].tokens |->
                        MarkedEscape(tokens[i].tokens[j].text)]))]

\* renderer.blockquote
BlockquoteRenderer(token) ==
    IF token.callout = None
    THEN <<Node("blockquote", <<>>, <<>>)>> \o ParseParagraphs(token.tokens)
    ELSE
    LET callout     == token.callout[1]
        meta        == CalloutMeta(callout.type)
        cls         == Attr("class", <<Lit("callout "), Lit("callout-"), Lit(meta.color),
                                       Lit(" "), Lit("callout-"), Txt(callout.type)>>)
        contentHtml == ParseParagraphs(token.tokens)
        titleHtml   == <<Node("div", <<Class("callout-title")>>, <<>>),
                         Node("span", <<Class("callout-icon")>>, <<Lit(meta.icon)>>),
                         Node("span", <<Class("callout-title-text")>>,
                              escapeHtml(callout.title))>>
                       \o (IF callout.foldable
                           THEN <<Node("span", <<Class("callout-fold-icon")>>, <<>>)>>
                           ELSE <<>>)
        wrapper     == IF contentHtml # <<>>
                       THEN <<Node("div", <<Class("callout-content")>>, <<>>)>>
                            \o contentHtml
                       ELSE <<>>
    IN  IF callout.foldable
        THEN <<Node("details",
                    <<cls>> \o (IF callout.defaultOpen THEN <<Attr("open", <<>>)>>
                                ELSE <<>>),
                    <<>>),
               Node("summary", <<Class("callout-header")>>, <<>>)>>
             \o titleHtml \o wrapper
        ELSE <<Node("div", <<cls>>, <<>>),
               Node("div", <<Class("callout-header")>>, <<>>)>>
             \o titleHtml \o wrapper

\* ------------------------------------------------------------------------
\* Renderer overrides: code blocks and list items
\* ------------------------------------------------------------------------

\* lang.charAt(0).toUpperCase() + lang.slice(1) on the languages of the
\* model.
CapitalizeLang(lang) ==
    CASE lang = "js" -> "Js" [] lang = "text" -> "Text" [] OTHER -> lang

\* The markup highlight.js returns: the code, escaped.
HljsHighlight(code) ==
    [i \in DOMAIN code |->
        IF code[i].k = "txt" THEN [code[i] EXCEPT !.esc = TRUE] ELSE code[i]]

\* renderer.code.  token.lang is the info string of the fence as written;
\* token.text is the highlighted code, and the source as written for a
\* mermaid block (its highlight callback returns the code unchanged).
CodeRenderer(token) ==
    IF token.lang = "mermaid"
    THEN <<Node("div", <<Class("mermaid")>>, token.body)>>
    ELSE LET lang == IF token.lang = "" THEN "text" ELSE token.lang
         IN  <<Node("div", <<Class("code-block-container")>>, <<>>),
               Node("div", <<Class("code-block-header")>>, <<>>),
               Node("span", <<Class("code-lang")>>, <<Txt(CapitalizeLang(lang))>>),
               Node("button", <<Class("code-copy-btn")>>, <<Lit("Copy")>>),
               Node("pre", <<>>, <<>>),
               Node("code", <<Attr("class", <<Lit("hljs language-"), Txt(lang)>>)>>,
                    HljsHighlight(token.body))>>

\* The status characters marked's GFM rule /^\[[ xX]\] / takes for a task.
MarkedTaskChars == {" ", "x", "X"}

\* The lexer's token of a list item "- [s] body".
ListItemToken(it) ==
    [type |-> "list_item",
     raw |-> <<Txt("- "), Txt("["), Txt(it.status), Txt("]"), Space>> \o it.body,
     task |-> it.status \in MarkedTaskChars,
     checked |-> it.status \in {"x", "X"},
     text |-> IF it.status \in MarkedTaskChars THEN it.body
              ELSE <<Txt("["), Txt(it.status), Txt("]"), Space>> \o it.body,
     taskStatus |-> Undefined]

\* walkTokensForTaskLists: rawText.match(/^\[(.)\]\s/) on li.raw || li.text.
walkTokensForTaskLists(li) ==
    IF ~li.task THEN li
    ELSE LET rawText == IF li.raw # <<>> THEN li.raw ELSE li.text
         IN  IF Len(rawText) >= 4 /\ rawText[1] = Txt("[") /\ rawText[2].k = "txt"
                /\ rawText[3] = Txt("]") /\ IsSpace(rawText[4])
             THEN [li EXCEPT !.taskStatus = rawText[2].s]
             ELSE li

\* The characters of /^[a-zA-Z0-9 \/?!*<>ilbS"\-x]$/ among the statuses of
\* the model.
SafeStatusChars == {" ", "x", "X", "/", "-", ">", "<", "?", "!", "*", "l", "i", "S", "b", "\""}

\* renderer.listitem without the test of the status against the safe set.
ListItemRendererUnchecked(token) ==
    LET body == MarkedEscape(token.text) IN
    IF token.task
    THEN LET status == IF token.taskStatus # Undefined /\ token.taskStatus # ""
                       THEN token.taskStatus
                       ELSE IF token.checked THEN "x" ELSE " "
         IN  <<Node("li", <<Class("task-list-item")>>, body),
               Node("input",
                    <<Attr("type", <<Lit("checkbox")>>), Attr("disabled", <<>>)>>
                    \o (IF token.checked THEN <<Attr("checked", <<>>)>> ELSE <<>>)
                    \o <<Attr("data-task", <<Txt(status)>>)>>,
                    <<>>)>>
    ELSE <<Node("li", <<>>, body)>>

\* renderer.listitem
ListItemRenderer(token) ==
    LET body == MarkedEscape(token.text) IN
    IF token.task
    THEN LET status     == IF token.taskStatus # Undefined /\ token.taskStatus # ""
                           THEN token.taskStatus
                           ELSE IF token.checked THEN "x" ELSE " "
             safeStatus == IF status \in SafeStatusChars
                           THEN (IF status = "\"" THEN Lit("&quot;") ELSE Txt(status))
                           ELSE Txt(" ")
         IN  <<Node("li", <<Class("task-list-item")>>, body),
               Node("input",
                    <<Attr("type", <<Lit("checkbox")>>), Attr("disabled", <<>>)>>
                    \o (IF token.checked THEN <<Attr("checked", <<>>)>> ELSE <<>>)
                    \o <<Attr("data-task", <<safeStatus>>)>>,
                    <<>>)>>
    ELSE <<Node("li", <<>>, body)>>

\* ------------------------------------------------------------------------
\* marked: block and inline lexing of a paragraph of characters
\* ------------------------------------------------------------------------

\* A paragraph given character by character.  Its atoms are one character
\* each, but for [[ and ]] and for the start of a URL (scheme and host).
Inline(body) == [k |-> "inline", body |-> body]

Colon     == Txt(":")
Slash     == Txt("/")
Backslash == Txt("\\")
Bang      == Txt("!")
Open      == Txt("[[")
Close     == Txt("]]")
UrlStart  == Txt("https://x")

\* /[a-zA-Z]/ and /[a-zA-Z0-9/_-]/ on the characters of the model.
LetterTexts  == {"a"}
TagCharTexts == {"a", "1", "/"}

IsLetter(a)  == a.k = "txt" /\ a.s \in LetterTexts
IsTagChar(a) == a.k = "txt" /\ a.s \in TagCharTexts

\* src.indexOf(a, from), 1-based; 0 when there is none.
IndexFrom(src, a, from) ==
    LET is == {i \in from .. Len(src) : src[i] = a}
    IN  IF is = {} THEN 0 ELSE Min(is)

RECURSIVE TagStartFrom(_, _)
\* The loop of tagExtension.start from the # at idx.
TagStartFrom(src, idx) ==
    IF idx = 0 THEN 0
    ELSE IF idx > 1 /\ src[idx - 1] \in {Colon, Slash}
    THEN TagStartFrom(src, IndexFrom(src, Hash, idx + 1))
    ELSE IF idx + 1 <= Len(src) /\ IsLetter(src[idx + 1]) THEN idx
    ELSE TagStartFrom(src, IndexFrom(src, Hash, idx + 1))

\* tagExtension.start(src), 1-based; 0 for -1.
TagStart(src) == TagStartFrom(src, IndexFrom(src, Hash, 1))

\* wikilinkExtension.start(src), 1-based; 0 for -1.
WikilinkStart(src) ==
    LET idx == IndexFrom(src, Open, 1)
    IN  IF idx = 0 THEN 0
        ELSE IF idx > 1 /\ src[idx - 1] = Bang
        THEN IndexFrom(src, Open, idx + 1)
        ELSE idx

\* wikilinkExtension.tokenizer: /^\[\[([^\]]+)\]\]/.  The index of the
\* closing ]], 0 when src does not start with a wikilink.
WikilinkMatch(src) ==
    LET close == IndexFrom(src, Close, 1)
    IN  IF src # <<>> /\ src[1] = Open /\ close > 2 THEN close ELSE 0

\* tagExtension.tokenizer: /^#([a-zA-Z][a-zA-Z0-9/_-]*)/.  The number of
\* characters matched, 0 when src does not start with a tag.
TagMatch(src) ==
    IF Len(src) >= 2 /\ src[1] = Hash /\ IsLetter(src[2])
    THEN LET stop == {i \in 3 .. Len(src) : ~IsTagChar(src[i])}
         IN  IF stop = {} THEN Len(src) ELSE Min(stop) - 1
    ELSE 0

\* The characters of the model marked's escape rule accepts after a
\* backslash.
EscapableTexts == {"#", ":", "/", "|", "\\", "!"}

EscapeMatch(src) ==
    Len(src) >= 2 /\ src[1] = Backslash /\ src[2].k = "txt" /\ src[2].s \in EscapableTexts

\* marked's GFM url rule: from the scheme to the next white space, less
\* the trailing punctuation (of the model's characters, : and !).
UrlMatch(src) ==
    IF src # <<>> /\ src[1] = UrlStart
    THEN LET stop == {i \in 2 .. Len(src) : src[i] = Space}
             end  == IF stop = {} THEN Len(src) ELSE Min(stop) - 1
             keep == {i \in 1 .. end : src[i] \notin {Colon, Bang}}
         IN  Max(keep)
    ELSE 0

\* embedExtension.start(src): src.indexOf('![['), 1-based; 0 for -1.
EmbedStart(src) ==
    LET is == {i \in 1 .. Len(src) - 1 : src[i] = Bang /\ src[i + 1] = Open}
    IN  IF is = {} THEN 0 ELSE Min(is)

\* embedExtension.tokenizer: /^!\[\[([^\]]+)\]\]/.  The index of the
\* closing ]], 0 when src does not start with an embed.
EmbedMatch(src) ==
    LET close == IndexFrom(src, Close, 1)
    IN  IF Len(src) >= 2 /\ src[1] = Bang /\ src[2] = Open /\ close > 3
        THEN close ELSE 0

\* The token of embedExtension.tokenizer for the text between the
\* brackets: the target is what stands before the first |, the size what
\* stands after it, both trimmed.
EmbedToken(content) ==
    LET parts == SplitOn(content, Pipe)
    IN  [type |-> "obsidianEmbed",
         body |-> TrimStr(parts[1]),
         size |-> IF Len(parts) > 1 THEN TrimStr(JoinWith(Tail(parts), Pipe)) ELSE <<>>]

\* The characters before which marked's text rule stops.
TextBreaks == {Backslash, Bang, Open, UrlStart}

\* The text rule of marked's inline lexer.  The text is first clipped
\* to the nearest start an extension reports for src.slice(1); the
\* first character is always consumed.
TextMatch(src) ==
    LET tempSrc == Tail(src)
        starts  == {TagStart(tempSrc), WikilinkStart(tempSrc), EmbedStart(tempSrc)} \ {0}
        cutSrc  == IF starts = {} THEN src ELSE SubSeq(src, 1, Min(starts))
        stop    == {i \in 2 .. Len(cutSrc) : cutSrc[i] \in TextBreaks}
    IN  IF stop = {} THEN Len(cutSrc) ELSE Min(stop) - 1

RECURSIVE InlineTokens(_)
\* lexer.inlineTokens(src): at each position the extension tokenizers
\* (embed, wikilink, tag) come first, then escape, url and text.
InlineTokens(src) ==
    IF src = <<>> THEN <<>>
    ELSE IF EmbedMatch(src) > 0
    THEN <<EmbedToken(SubSeq(src, 3, EmbedMatch(src) - 1))>>
         \o InlineTokens(SubSeq(src, EmbedMatch(src) + 1, Len(src)))
    ELSE IF WikilinkMatch(src) > 0
    THEN <<[type |-> "wikilink", body |-> SubSeq(src, 2, WikilinkMatch(src) - 1)]>>
         \o InlineTokens(SubSeq(src, WikilinkMatch(src) + 1, Len(src)))
    ELSE IF TagMatch(src) > 0
    THEN <<[type |-> "obsidianTag", tag |-> SubSeq(src, 2, TagMatch(src))]>>
         \o InlineTokens(SubSeq(src, TagMatch(src) + 1, Len(src)))
    ELSE IF EscapeMatch(src)
    THEN <<[type |-> "escape", text |-> <<src[2]>>]>>
         \o InlineTokens(SubSeq(src, 3, Len(src)))
    ELSE IF UrlMatch(src) > 0
    THEN <<[type |-> "link", text |-> SubSeq(src, 1, UrlMatch(src))]>>
         \o InlineTokens(SubSeq(src, UrlMatch(src) + 1, Len(src)))
    ELSE <<[type |-> "text", text |-> SubSeq(src, 1, TextMatch(src))]>>
         \o InlineTokens(SubSeq(src, TextMatch(src) + 1, Len(src)))

\* tagExtension.renderer
TagRenderer(token) ==
    <<Node("span", <<Class("obsidian-tag")>>, <<Lit("#")>> \o escapeHtml(token.tag))>>

\* parser.parseInline(tokens)
InlineRenderer(token, rc) ==
    CASE token.type = "wikilink"    -> WikilinkRenderer(WikilinkToken(token))
      [] token.type = "obsidianEmbed" -> EmbedRenderer(token, rc)
      [] token.type = "obsidianTag" -> TagRenderer(token)
      [] token.type = "link"        ->
            <<Node("a", <<Attr("href", MarkedEscape(token.text))>>,
                   MarkedEscape(token.text))>>
      [] OTHER                      -> <<Node("#text", <<>>, MarkedEscape(token.text))>>

ParseInline(src, rc) ==
    Concat([i \in DOMAIN InlineTokens(src) |-> InlineRenderer(InlineTokens(src)[i], rc)])

\* The number of leading characters of src that are a.
RECURSIVE LeadingRun(_, _)
LeadingRun(src, a) ==
    IF src # <<>> /\ src[1] = a THEN 1 + LeadingRun(Tail(src), a) ELSE 0

\* The text of an ATX heading: trimmed, a closing run of # removed when
\* it is the whole text or follows a space.
HeadingText(rest) ==
    LET text    == TrimStr(rest)
        hashes  == LeadingRun([i \in DOMAIN text |-> text[Len(text) + 1 - i]], Hash)
        trimmed == SubSeq(text, 1, Len(text) - hashes)
    IN  IF hashes > 0 /\ (trimmed = <<>> \/ trimmed[Len(trimmed)] = Space)
        THEN TrimStr(trimmed) ELSE text

HeadingTags == <<"h1", "h2", "h3", "h4", "h5", "h6">>

\* marked's block lexer on one line that starts with no white space: an
\* ATX heading (one to six #, then a space or the end), a paragraph
\* otherwise.
BlockOfLine(src, rc) ==
    LET h == LeadingRun(src, Hash)
    IN  IF h \in 1 .. 6 /\ (Len(src) = h \/ src[h + 1] = Space)
        THEN <<Node(HeadingTags[h], <<>>, <<>>)>>
             \o ParseInline(HeadingText(SubSeq(src, h + 1, Len(src))), rc)
        ELSE <<Node("p", <<>>, <<>>)>> \o ParseInline(TrimEnd(src), rc)

\* ------------------------------------------------------------------------
\* marked.parse
\* ------------------------------------------------------------------------

\* The HTML of one item of the text: its token, annotated by walkTokens
\* and rendered.  (A --- block that is not at the start of the text, and so
\* is not stripped, is a rule and a heading.)  rc is _renderContext as the renderers read it while
\* marked.parse runs.  Raw HTML is passed through; the href of a link is
\* kept whatever its scheme.
RenderItem(it, rc) ==
    CASE it.k = "para"       -> <<Node("p", <<>>, MarkedEscape(it.body))>>
      [] it.k = "html"       -> <<Node("p", <<>>, it.body)>>
      [] it.k = "frontmatter" ->
            <<Node("hr", <<>>, <<>>), Node("h2", <<>>, MarkedEscape(it.body))>>
      [] it.k = "link"       ->
            <<Node("p", <<>>, <<>>),
              Node("a", <<Attr("href", MarkedEscape(it.href))>>, MarkedEscape(it.body))>>
      [] it.k = "highlight"  -> <<Node("p", <<>>, <<>>)>> \o HighlightRenderer(it)
      [] it.k = "wikilink"   ->
            <<Node("p", <<>>, <<>>)>> \o WikilinkRenderer(WikilinkToken(it))
      [] it.k = "inline"     -> BlockOfLine(it.body, rc)
      [] it.k = "embed"      -> <<Node("p", <<>>, <<>>)>> \o EmbedRenderer(it, rc)
      [] it.k = "blockquote" ->
            BlockquoteRenderer(walkTokensForCallouts(BlockquoteToken(it)))
      [] it.k = "code"       -> CodeRenderer(it)
      [] it.k = "listitem"   ->
            <<Node("ul", <<>>, <<>>)>>
            \o ListItemRenderer(walkTokensForTaskLists(ListItemToken(it)))
      [] OTHER               -> <<>>

\* marked.parse(preprocessed): lexer, walkTokens and parser run
\* synchronously (no extension of the instance is async).
MarkedParse(text, rc) == Concat([i \in DOMAIN text |-> RenderItem(text[i], rc)])

\* ------------------------------------------------------------------------
\* Post-processing: restore math placeholders with KaTeX HTML
\* ------------------------------------------------------------------------

\* str.replace(pattern, replacement) with a string pattern: the first
\* occurrence only.
ReplaceFirstInStr(str, a, new) ==
    IF ~HasAtom(str, a) THEN str
    ELSE [str EXCEPT ![Min({i \in DOMAIN str : str[i] = a})] = new]

\* html.replace(placeholder, replacement) on an HTML string.
ReplaceFirst(html, a, new) ==
    LET hits == {i \in DOMAIN html : HasAtom(NodeAtoms(html[i]), a)}
    IN  IF hits = {} THEN html
        ELSE LET i     == Min(hits)
                 n     == html[i]
                 ahits == {j \in DOMAIN n.attrs : HasAtom(n.attrs[j].val, a)}
             IN  [html EXCEPT ![i] =
                    IF ahits # {}
                    THEN [n EXCEPT !.attrs[Min(ahits)].val =
                                       ReplaceFirstInStr(@, a, new)]
                    ELSE [n EXCEPT !.body = ReplaceFirstInStr(@, a, new)]]

\* What one iteration of restoreMath puts in the place of a placeholder:
\* the KaTeX markup (inside div.katex-display in display mode), or the
\* katex-error fallback when renderToString throws.
\* The wrapper is a replacement string: in `$${escaped}$` an expression
\* that starts with & gives "$&amp;...", and $& inserts the matched
\* placeholder id; in display mode the leading $$ is taken first (as one
\* $), so no $& is read.
MathReplacement(entry) ==
    IF entry.expression \in KatexThrowing
    THEN IF ~entry.displayMode /\ entry.expression \in AmpFirst
         THEN KatexErrorSubst(entry.expression, entry.displayMode, entry.id.n)
         ELSE KatexError(entry.expression, entry.displayMode)
    ELSE Katex(entry.expression, entry.displayMode)

RECURSIVE RestoreEntries(_, _)
RestoreEntries(html, entries) ==
    IF entries = <<>> THEN html
    ELSE RestoreEntries(
             ReplaceFirst(html, Head(entries).id, MathReplacement(Head(entries))),
             Tail(entries))

\* restoreMath(html): one replace for every entry of mathStore, in the
\* order of the Map.  store is the value of mathStore when it runs.
restoreMath(html, store) == RestoreEntries(html, store)

\* ------------------------------------------------------------------------
\* DOMPurify configuration
\* ------------------------------------------------------------------------

ALLOWED_TAGS ==
    {"h1", "h2", "h3", "h4", "h5", "h6",
     "p", "a", "ul", "ol", "li",
     "blockquote", "code", "pre",
     "strong", "em", "del",
     "table", "thead", "tbody", "tr", "th", "td",
     "br", "hr", "img", "span", "div",
     "mark",
     "details", "summary",
     "section", "sup", "sub",
     "input", "button",
     "math", "semantics", "mrow", "mi", "mo", "mn", "ms",
     "msup", "msub", "mfrac", "mover", "munder", "munderover",
     "mtable", "mtr", "mtd", "mtext", "mspace", "mpadded",
     "menclose", "mglyph", "msqrt", "mroot", "mstyle",
     "annotation", "annotation-xml",
     "svg", "g", "path", "line", "rect", "circle", "ellipse",
     "polygon", "polyline", "text", "tspan",
     "defs", "clipPath", "use", "symbol", "marker",
     "foreignObject", "image"}

ALLOWED_ATTR ==
    {"href", "title", "src", "alt", "class", "id",
     "target", "rel",
     "open",
     "type", "disabled", "checked",
     "style", "aria-hidden", "role",
     "viewBox", "xmlns", "xmlns:xlink",
     "d", "fill", "stroke", "stroke-width", "stroke-linecap", "stroke-linejoin",
     "width", "height", "x", "y", "cx", "cy", "r", "rx", "ry",
     "transform", "opacity", "clip-path", "clip-rule", "fill-rule",
     "font-size", "font-family", "text-anchor", "dominant-baseline",
     "dx", "dy", "x1", "y1", "x2", "y2",
     "points", "marker-end", "marker-start",
     "xlink:href",
     "data-*"}

ALLOW_DATA_ATTR == TRUE

FORBID_TAGS == {}
FORBID_ATTR == {}

\* A variant of the configuration that lets scripts and handlers through.
SANITIZE_CONFIG_Permissive ==
    [ALLOWED_TAGS |-> ALLOWED_TAGS \cup {"script"},
     ALLOWED_ATTR |-> ALLOWED_ATTR \cup {"onclick", "onerror"},
     ALLOW_DATA_ATTR |-> ALLOW_DATA_ATTR,
     FORBID_TAGS |-> FORBID_TAGS, FORBID_ATTR |-> FORBID_ATTR]

SANITIZE_CONFIG ==
    [ALLOWED_TAGS |-> ALLOWED_TAGS, ALLOWED_ATTR |-> ALLOWED_ATTR,
     ALLOW_DATA_ATTR |-> ALLOW_DATA_ATTR,
     FORBID_TAGS |-> FORBID_TAGS, FORBID_ATTR |-> FORBID_ATTR]

\* ------------------------------------------------------------------------
\* DOMPurify.sanitize: parse, filter by the configuration, serialise
\* ------------------------------------------------------------------------

ScriptNode == Node("script", <<>>, <<Lit("alert(1)")>>)

\* The texts of the model that hold markup, and the elements an HTML
\* parser makes of each where it stands unescaped in element content.
RawMarkup(t) ==
    CASE t = "<script>alert(1)</script>" -> <<ScriptNode>>
      [] t = "<img src=x onerror=alert(1)>" ->
            <<Node("img", <<Attr("src", <<Lit("x")>>),
                            Attr("onerror", <<Lit("alert(1)")>>)>>, <<>>)>>
      [] t = "<a href=javascript:alert(1)>x</a>" ->
            <<Node("a", <<Attr("href", <<Lit("javascript:alert(1)")>>)>>,
                   <<Lit("x")>>)>>
      [] t = "\"><script>alert(1)</script>" ->
            <<Node("#text", <<>>, <<Lit("\">")>>), ScriptNode>>
      [] t = "<pre>\n\nx</pre>" -> <<Node("pre", <<>>, <<Nl, Lit("x")>>)>>
      [] OTHER -> <<>>

\* What an HTML parser makes of a text that stands unescaped inside a
\* double-quoted attribute value: whether it ends the value, the
\* attributes it adds to the element, whether it ends the tag and the
\* elements that follow.
AttrBreakout(t) ==
    CASE t = "\"><script>alert(1)</script>" ->
            [breaks |-> TRUE, attrs |-> <<>>, closesTag |-> TRUE,
             nodes |-> <<ScriptNode>>]
      [] t = "\" onclick=\"alert(1)" ->
            [breaks |-> TRUE, attrs |-> <<Attr("onclick", <<Lit("alert(1)")>>)>>,
             closesTag |-> FALSE, nodes |-> <<>>]
      [] OTHER -> [breaks |-> FALSE, attrs |-> <<>>, closesTag |-> FALSE,
                   nodes |-> <<>>]

IsRawMarkup(a) == a.k = "txt" /\ ~a.esc /\ RawMarkup(a.s) # <<>>

\* The markup KaTeX returns holds double quotes: inside an attribute value
\* it ends the value and the tag.
BreaksAttr(a) ==
    \/ a.k \in {"katex", "katexError", "katexErrorSubst"}
    \/ a.k = "txt" /\ ~a.esc /\ AttrBreakout(a.s).breaks

\* U+0000 is dropped from text and replaced in attribute values: no
\* placeholder id survives parsing as such.
DropNul(str) ==
    [i \in DOMAIN str |-> IF str[i].k = "ph" THEN PhResidue(str[i].n) ELSE str[i]]

\* The elements whose start tag makes the parser ignore a line feed that
\* comes straight after it.
NewlineEaters == {"pre", "listing", "textarea"}

IgnoreNewline(tag, text) ==
    IF tag \in NewlineEaters /\ text # <<>> /\ text[1] = Nl THEN Tail(text) ELSE text

\* The elements made of the text content of an element.
ParseBody(tag, attrs, body) ==
    <<Node(tag, attrs,
           DropNul(SelectSeq(IgnoreNewline(tag, body), LAMBDA a : ~IsRawMarkup(a))))>>
    \o Concat([i \in DOMAIN body |->
                  IF IsRawMarkup(body[i]) THEN RawMarkup(body[i].s) ELSE <<>>])

\* The elements an HTML parser makes of the markup of one element.
ParseNode(n) ==
    LET bj == {j \in DOMAIN n.attrs :
                  \E p \in DOMAIN n.attrs[j].val : BreaksAttr(n.attrs[j].val[p])}
    IN  IF bj = {}
        THEN ParseBody(n.tag,
                       [j \in DOMAIN n.attrs |->
                           Attr(n.attrs[j].name, DropNul(n.attrs[j].val))],
                       n.body)
        ELSE LET j    == Min(bj)
                 val  == n.attrs[j].val
                 p    == Min({q \in DOMAIN val : BreaksAttr(val[q])})
                 a    == val[p]
                 brk  == IF a.k = "txt" THEN AttrBreakout(a.s)
                         ELSE [breaks |-> TRUE, attrs |-> <<>>, closesTag |-> TRUE,
                               nodes |-> <<Node("#text", <<>>, <<a>>)>>]
                 head == [i \in 1 .. (j - 1) |->
                             Attr(n.attrs[i].name, DropNul(n.attrs[i].val))]
                         \o <<Attr(n.attrs[j].name, DropNul(SubSeq(val, 1, p - 1)))>>
                 rest == SubSeq(val, p + 1, Len(val))
                 later == SubSeq(n.attrs, j + 1, Len(n.attrs))
             IN  IF brk.closesTag
                 THEN <<Node(n.tag, head \o brk.attrs, <<>>)>>
                      \o brk.nodes
                      \o ParseBody("#text", <<>>,
                                   rest \o Concat([i \in DOMAIN later |-> later[i].val])
                                   \o n.body)
                 ELSE ParseBody(n.tag,
                                head
                                \o [i \in DOMAIN brk.attrs |->
                                       IF i = Len(brk.attrs)
                                       THEN Attr(brk.attrs[i].name,
                                                 brk.attrs[i].val \o DropNul(rest))
                                       ELSE brk.attrs[i]]
                                \o [i \in DOMAIN later |->
                                       Attr(later[i].name, DropNul(later[i].val))],
                                n.body)

HtmlParse(html) == Concat([i \in DOMAIN html |-> ParseNode(html[i])])

\* Attribute names of the model that match DOMPurify's DATA_ATTR pattern
\* /^data-[\-\w.·-￿]+$/.
DATA_ATTR == {"data-task", "data-wikilink-disabled", "data-x"}

\* DOMPurify's default URI_SAFE_ATTRIBUTES.
URI_SAFE_ATTRIBUTES ==
    {"alt", "class", "for", "id", "label", "name", "pattern", "placeholder",
     "role", "summary", "title", "value", "style", "xmlns"}

\* DOMPurify's default FORBID_CONTENTS: removed with their content.
FORBID_CONTENTS ==
    {"annotation-xml", "audio", "colgroup", "desc", "foreignobject", "head",
     "iframe", "math", "mi", "mn", "mo", "ms", "mtext", "noembed", "noframes",
     "noscript", "plaintext", "script", "style", "svg", "template", "thead",
     "title", "video", "xmp"}

\* Texts of the model that start with a scheme DOMPurify's IS_ALLOWED_URI
\* rejects.
ScriptUrls == {"javascript:alert(1)"}

IS_ALLOWED_URI(val) == ~(val # <<>> /\ val[1].k = "txt" /\ val[1].s \in ScriptUrls)

\* DOMPurify's _isValidAttribute under the configuration.
IsValidAttribute(cfg, attr) ==
    IF cfg.ALLOW_DATA_ATTR /\ attr.name \notin cfg.FORBID_ATTR
       /\ attr.name \in DATA_ATTR
    THEN TRUE
    ELSE IF attr.name \notin cfg.ALLOWED_ATTR \/ attr.name \in cfg.FORBID_ATTR
    THEN FALSE
    ELSE IF attr.name \in URI_SAFE_ATTRIBUTES THEN TRUE
    ELSE IF IS_ALLOWED_URI(attr.val) THEN TRUE
    ELSE attr.val = <<>>

\* DOMPurify's handling of one element: an element that is not allowed is
\* removed, its text kept unless the tag is one of FORBID_CONTENTS.
SanitizeNode(cfg, n) ==
    IF n.tag = "#text" \/ (n.tag \in cfg.ALLOWED_TAGS /\ n.tag \notin cfg.FORBID_TAGS)
    THEN <<[n EXCEPT !.attrs = SelectSeq(n.attrs,
                                         LAMBDA a : IsValidAttribute(cfg, a))]>>
    ELSE IF n.tag \in FORBID_CONTENTS \/ n.body = <<>> THEN <<>>
    ELSE <<Node("#text", <<>>, n.body)>>

\* DOMPurify.sanitize(dirty, cfg)
Sanitize(dirty, cfg) ==
    LET dom == HtmlParse(dirty)
    IN  Concat([i \in DOMAIN dom |-> SanitizeNode(cfg, dom[i])])

\* ------------------------------------------------------------------------
\* extractTitle
\* ------------------------------------------------------------------------
\* For the extractors a frontmatter block is the sequence of its lines and
\* the text after it is a sequence of "inline" items, one per line; the
\* body of a line is the sequence of its characters and words.

FmLine(body) == [k |-> "line", body |-> body]

Quote == Txt("\"")

IsBlank(line) == \A i \in DOMAIN line : line[i] = Space

\* The capture of \s*(.+)$ matched at the start of lines[1], the lines
\* after it being the rest of the text: \s* runs over spaces and line ends
\* alike, so the capture is the first line that holds more than spaces,
\* without its leading spaces; when there is none the match backtracks
\* into the white space and captures one space of it.
AfterWhitespace(lines) ==
    LET full   == {i \in DOMAIN lines : ~IsBlank(lines[i])}
        spaced == {i \in DOMAIN lines : lines[i] # <<>>}
        first  == lines[Min(full)]
    IN  IF full # {}
        THEN Some(SubSeq(first, LeadingRun(first, Space) + 1, Len(first)))
        ELSE IF spaced # {} THEN Some(<<Space>>) ELSE None

\* text.match(/^key:\s*(.+)$/m) on the lines of a frontmatter block: the
\* capture of the first line the pattern matches at, None when there is
\* none.
RECURSIVE KeyMatch(_, _)
KeyMatch(lines, key) ==
    IF lines = <<>> THEN None
    ELSE LET line  == Head(lines)
             isKey == Len(line) >= 2 /\ line[1] = Txt(key) /\ line[2] = Colon
             after == AfterWhitespace(<<SubSeq(line, 3, Len(line))>> \o Tail(lines))
         IN  IF isKey /\ after # None THEN after ELSE KeyMatch(Tail(lines), key)

\* text.match(/^#\s+(.+)$/m) on the lines of a text: \s+ needs one white
\* space character, a space or the end of the line, and leaves one to the
\* capture when the rest is white space only.
RECURSIVE H1Match(_)
H1Match(lines) ==
    IF lines = <<>> THEN None
    ELSE LET line  == Head(lines)
             rest  == <<Tail(line)>> \o Tail(lines)
             white == Len(Concat(rest)) + Len(rest) - 1
             after == AfterWhitespace(rest)
             found == /\ line # <<>> /\ line[1] = Hash
                      /\ (Len(line) = 1 \/ line[2] = Space)
                      /\ after # None
                      /\ (after[1] = <<Space>> /\ IsBlank(Concat(rest))) => white >= 2
         IN  IF found THEN after ELSE H1Match(Tail(lines))

\* s.replace(/^["']|["']$/g, ''): a quote at the start and a quote at the
\* end are removed, each on its own.
Unquote(s) ==
    LET a == IF s # <<>> /\ s[1] = Quote THEN Tail(s) ELSE s
    IN  IF a # <<>> /\ a[Len(a)] = Quote THEN SubSeq(a, 1, Len(a) - 1) ELSE a

\* The lines of a text that holds no frontmatter block, or of a
\* frontmatter block.
LinesOf(text) == [i \in DOMAIN text |-> text[i].body]

HasFrontmatter(md) == md # <<>> /\ md[1].k = "frontmatter"

extractTitle(md, fallback) ==
    LET titleMatch == IF HasFrontmatter(md) THEN KeyMatch(LinesOf(md[1].body), "title") ELSE None
        stripped   == stripFrontmatter(md)
        h1Match    == H1Match(LinesOf(stripped))
    IN  IF titleMatch # None THEN Unquote(TrimStr(titleMatch[1]))
        ELSE IF h1Match # None THEN TrimStr(h1Match[1])
        ELSE fallback

\* ------------------------------------------------------------------------
\* extractDescription
\* ------------------------------------------------------------------------

\* n times the letter ch, one word of the text.
Run(ch, n) == [k |-> "run", ch |-> ch, n |-> n]

Star     == Txt("*")
\* The grave accent that fences code.
Backtick == Txt("grave")
Dash     == Txt("-")
Lt       == Txt("<")
Gt       == Txt(">")
LBracket == Txt("[")

\* String.prototype.length
RECURSIVE StrLen(_)
StrLen(str) ==
    IF str = <<>> THEN 0
    ELSE (IF Head(str).k = "run" THEN Head(str).n ELSE 1) + StrLen(Tail(str))

\* str.substring(0, n)
RECURSIVE Substring(_, _)
Substring(str, n) ==
    IF str = <<>> \/ n <= 0 THEN <<>>
    ELSE LET a == Head(str)
             l == IF a.k = "run" THEN a.n ELSE 1
         IN  IF l <= n THEN <<a>> \o Substring(Tail(str), n - l)
             ELSE <<Run(a.ch, n)>>

\* line.startsWith(prefix)
StartsWith(line, prefix) ==
    Len(line) >= Len(prefix) /\ SubSeq(line, 1, Len(prefix)) = prefix

\* The lines the loop of extractDescription passes over whatever they
\* hold: headings, embeds and images, rules, callout headers.
SkippedLine(line) ==
    \/ StartsWith(line, <<Hash>>)
    \/ StartsWith(line, <<Bang, LBracket, LBracket>>)
    \/ StartsWith(line, <<Bang, LBracket>>)
    \/ StartsWith(line, <<Dash, Dash, Dash>>)
    \/ StartsWith(line, <<Gt, Space, LBracket, Bang>>)

\* str.replace(/<[^>]+>/g, ''): from a < to the next >, one character at
\* least between them.
RECURSIVE StripTags(_)
StripTags(str) ==
    LET lt == IndexFrom(str, Lt, 1)
        gt == IF lt = 0 THEN 0 ELSE IndexFrom(str, Gt, lt + 1)
    IN  IF lt = 0 \/ gt = 0 THEN str
        ELSE IF gt = lt + 1
             THEN SubSeq(str, 1, lt) \o StripTags(SubSeq(str, lt + 1, Len(str)))
             ELSE SubSeq(str, 1, lt - 1) \o StripTags(SubSeq(str, gt + 1, Len(str)))

\* The replacements that clean a line.  The texts of the model hold no
\* ( ] = _ ~ so that the replacements of links, wikilinks and highlights
\* find nothing; runs of * and grave accents are removed, then HTML tags.
CleanLine(trimmed) ==
    StripTags(SelectSeq(trimmed, LAMBDA a : a \notin {Star, Backtick}))

\* The loop over the lines: textLines when the loop ends.
RECURSIVE CollectTextLines(_, _, _)
CollectTextLines(lines, inCodeBlock, textLines) ==
    IF lines = <<>> THEN textLines
    ELSE LET line == Head(lines)
         IN  IF StartsWith(line, <<Backtick, Backtick, Backtick>>)
             THEN CollectTextLines(Tail(lines), ~inCodeBlock, textLines)
             ELSE IF inCodeBlock \/ SkippedLine(line)
             THEN CollectTextLines(Tail(lines), inCodeBlock, textLines)
             ELSE IF TrimStr(line) = <<>>
             THEN IF textLines # <<>> THEN textLines
                  ELSE CollectTextLines(Tail(lines), inCodeBlock, textLines)
             ELSE CollectTextLines(Tail(lines), inCodeBlock,
                                   Append(textLines, CleanLine(TrimStr(line))))

MaxDescription == 160
KeptDescription == 157

Ellipsis == <<Dot, Dot, Dot>>

extractDescription(md, fallback) ==
    LET descMatch   == IF HasFrontmatter(md)
                       THEN KeyMatch(LinesOf(md[1].body), "description") ELSE None
        lines       == LinesOf(stripFrontmatter(md))
        description == TrimStr(JoinWith(CollectTextLines(lines, FALSE, <<>>), Space))
    IN  IF descMatch # None THEN Unquote(TrimStr(descMatch[1]))
        ELSE IF StrLen(description) > MaxDescription
        THEN Substring(description, KeptDescription) \o Ellipsis
        ELSE IF description # <<>> THEN description ELSE fallback

\* The record of a call of an extractor: its arguments and what it
\* returned.
Extracted(op, md, fallback, result) ==
    [op |-> op, markdown |-> md, fallback |-> fallback, result |-> result]

NoMeta == Extracted("none", <<>>, <<>>, <<>>)

\* ------------------------------------------------------------------------
\* protectMath, character by character
\* ------------------------------------------------------------------------
\* The text is a sequence of characters.  A sentinel of a code block and a
\* placeholder id are one atom each: they hold no grave accent, no $, no
\* line end and no white space, and they start and end with NUL, which is
\* no digit and no backslash.

Dollar == Txt("$")
Digit  == Txt("1")
Letter == Txt("a")

\* `\x00CODE_BLOCK_${n}\x00`
CodeSentinel(n) == [k |-> "codeSentinel", n |-> n]

\* An entry of codeBlocks.
CodeBlock(placeholder, content) == [placeholder |-> placeholder, content |-> content]

\* Whether the three grave accents of a fence stand at i.
FenceAt(s, i) ==
    /\ i + 2 <= Len(s)
    /\ s[i] = Backtick /\ s[i + 1] = Backtick /\ s[i + 2] = Backtick

\* text.replace(/```[\s\S]*?```/g, callback) from position i on: a fence
\* runs to the nearest fence after it.  codeCounter is the number of
\* entries pushed.
RECURSIVE ProtectFenced(_, _, _)
ProtectFenced(s, i, codeBlocks) ==
    IF i > Len(s) THEN [str |-> <<>>, codeBlocks |-> codeBlocks]
    ELSE LET closes == {j \in i + 3 .. Len(s) : FenceAt(s, j)}
         IN  IF FenceAt(s, i) /\ closes # {}
             THEN LET j  == Min(closes)
                      ph == CodeSentinel(Len(codeBlocks))
                      r  == ProtectFenced(s, j + 3,
                                Append(codeBlocks, CodeBlock(ph, SubSeq(s, i, j + 2))))
                  IN  [str |-> <<ph>> \o r.str, codeBlocks |-> r.codeBlocks]
             ELSE LET r == ProtectFenced(s, i + 1, codeBlocks)
                  IN  [str |-> <<s[i]>> \o r.str, codeBlocks |-> r.codeBlocks]

\* result.replace(/`[^`\n]+`/g, callback) from position i on: a grave
\* accent, one character at least that is neither a grave accent nor a
\* line end, a grave accent.
RECURSIVE ProtectInline(_, _, _)
ProtectInline(s, i, codeBlocks) ==
    IF i > Len(s) THEN [str |-> <<>>, codeBlocks |-> codeBlocks]
    ELSE LET stops == {j \in i + 1 .. Len(s) : s[j] \in {Backtick, Nl}}
             j     == IF stops = {} THEN 0 ELSE Min(stops)
         IN  IF s[i] = Backtick /\ j > i + 1 /\ s[j] = Backtick
             THEN LET ph == CodeSentinel(Len(codeBlocks))
                      r  == ProtectInline(s, j + 1,
                                Append(codeBlocks, CodeBlock(ph, SubSeq(s, i, j))))
                  IN  [str |-> <<ph>> \o r.str, codeBlocks |-> r.codeBlocks]
             ELSE LET r == ProtectInline(s, i + 1, codeBlocks)
                  IN  [str |-> <<s[i]>> \o r.str, codeBlocks |-> r.codeBlocks]

\* Whether $$ stands at i.
DollarsAt(s, i) == i + 1 <= Len(s) /\ s[i] = Dollar /\ s[i + 1] = Dollar

\* A call of a replace callback: where the match started in the string
\* the replace ran over, where it ended, and the id the callback returned.
MathMatch(from, to, id) == [from |-> from, to |-> to, id |-> id]

\* result.replace(/\$\$([\s\S]+?)\$\$/g, callback) from position i on:
\* $$, one character at least, the nearest $$ after it.  The expression
\* is trimmed.
RECURSIVE ReplaceDisplay(_, _, _, _)
ReplaceDisplay(s, i, ms, calls) ==
    IF i > Len(s) THEN [str |-> <<>>, ms |-> ms, calls |-> calls]
    ELSE LET closes == {j \in i + 3 .. Len(s) : DollarsAt(s, j)}
         IN  IF DollarsAt(s, i) /\ closes # {}
             THEN LET j == Min(closes)
                      c == createMathPlaceholder(ms, TrimStr(SubSeq(s, i + 2, j - 1)), TRUE)
                      r == ReplaceDisplay(s, j + 2, c.ms,
                                          Append(calls, MathMatch(i, j + 1, c.id)))
                  IN  [str |-> <<c.id>> \o r.str, ms |-> r.ms, calls |-> r.calls]
             ELSE LET r == ReplaceDisplay(s, i + 1, ms, calls)
                  IN  [str |-> <<s[i]>> \o r.str, ms |-> r.ms, calls |-> r.calls]

\* result.replace(/(?<![\\$])\$([^\s$](?:[^$]*[^\s$])?)\$(?!\d)/g, callback)
\* from position i on: a $ that follows neither a backslash nor a $, an
\* expression without $ that neither starts nor ends with white space, the
\* closing $, no digit after it.  The expression holds no $, so the
\* closing $ is the first $ after the opening one.
RECURSIVE ReplaceInline(_, _, _, _)
ReplaceInline(s, i, ms, calls) ==
    IF i > Len(s) THEN [str |-> <<>>, ms |-> ms, calls |-> calls]
    ELSE LET j == IndexFrom(s, Dollar, i + 1)
         IN  IF /\ s[i] = Dollar
                /\ ~(i > 1 /\ s[i - 1] \in {Backslash, Dollar})
                /\ j > i + 1
                /\ ~IsSpace(s[i + 1]) /\ ~IsSpace(s[j - 1])
                /\ ~(j + 1 <= Len(s) /\ s[j + 1] = Digit)
             THEN LET c == createMathPlaceholder(ms, SubSeq(s, i + 1, j - 1), FALSE)
                      r == ReplaceInline(s, j + 1, c.ms,
                                         Append(calls, MathMatch(i, j, c.id)))
                  IN  [str |-> <<c.id>> \o r.str, ms |-> r.ms, calls |-> r.calls]
             ELSE LET r == ReplaceInline(s, i + 1, ms, calls)
                  IN  [str |-> <<s[i]>> \o r.str, ms |-> r.ms, calls |-> r.calls]

\* The text a replacement string stands for (GetSubstitution of
\* String.prototype.replace with a string pattern): $$ is a $, $& the
\* matched text, $ and a grave accent the text before the match, $' the
\* text after it; any other $ stands for itself.
RECURSIVE GetSubstitution(_, _, _, _)
GetSubstitution(replacement, matched, before, after) ==
    IF replacement = <<>> THEN <<>>
    ELSE IF Len(replacement) >= 2 /\ replacement[1] = Dollar
         THEN LET rest == GetSubstitution(SubSeq(replacement, 3, Len(replacement)),
                                          matched, before, after)
              IN  CASE replacement[2] = Dollar    -> <<Dollar>> \o rest
                    [] replacement[2] = Txt("&")  -> matched \o rest
                    [] replacement[2] = Backtick  -> before \o rest
                    [] replacement[2] = Txt("'")  -> after \o rest
                    [] OTHER -> <<Dollar>> \o GetSubstitution(Tail(replacement),
                                                              matched, before, after)
         ELSE <<Head(replacement)>> \o GetSubstitution(Tail(replacement),
                                                       matched, before, after)

\* result.replace(placeholder, content): the first occurrence of the
\* placeholder is replaced by what content stands for as a replacement
\* string.
ReplaceWithString(result, placeholder, content) ==
    LET at == IndexFrom(result, placeholder, 1)
    IN  IF at = 0 THEN result
        ELSE LET before == SubSeq(result, 1, at - 1)
                 after  == SubSeq(result, at + 1, Len(result))
             IN  before \o GetSubstitution(content, <<placeholder>>, before, after)
                        \o after

\* The loop that restores the code blocks, in the order they were pushed.
RECURSIVE RestoreCode(_, _)
RestoreCode(result, codeBlocks) ==
    IF codeBlocks = <<>> THEN result
    ELSE RestoreCode(ReplaceWithString(result, Head(codeBlocks).placeholder,
                                       Head(codeBlocks).content),
                     Tail(codeBlocks))

\* protectMath(text) with the store and the counter it starts from: what
\* it returns, the store and the counter it leaves, and, for the record,
\* the code blocks it set aside, the text the math was looked for in and
\* the calls of createMathPlaceholder.
ProtectMathChars(text, ms) ==
    LET fenced  == ProtectFenced(text, 1, <<>>)
        code    == ProtectInline(fenced.str, 1, fenced.codeBlocks)
        display == ReplaceDisplay(code.str, 1, ms, <<>>)
        inline  == ReplaceInline(display.str, 1, display.ms, <<>>)
    IN  [result     |-> RestoreCode(inline.str, code.codeBlocks),
         ms         |-> inline.ms,
         codeBlocks |-> code.codeBlocks,
         protected  |-> code.str,
         afterDisplay |-> display.str,
         display    |-> display.calls,
         inline     |-> inline.calls]

\* ------------------------------------------------------------------------
\* The fallback of restoreMath, character by character
\* ------------------------------------------------------------------------

Amp        == Txt("&")
Apostrophe == Txt("'")

\* expression.replace(/&/g, '&amp;').replace(/</g, '&lt;').replace(/>/g, '&gt;')
RECURSIVE FallbackEscape(_)
FallbackEscape(expression) ==
    IF expression = <<>> THEN <<>>
    ELSE (CASE Head(expression) = Amp -> <<Amp, Txt("amp;")>>
            [] Head(expression) = Lt  -> <<Amp, Txt("lt;")>>
            [] Head(expression) = Gt  -> <<Amp, Txt("gt;")>>
            [] OTHER -> <<Head(expression)>>)
         \o FallbackEscape(Tail(expression))

ErrorDivOpen   == Lit("<div class=\"katex-error katex-display\">")
ErrorDivClose  == Lit("</div>")
ErrorSpanOpen  == Lit("<span class=\"katex-error\">")
ErrorSpanClose == Lit("</span>")

\* The wrapper of the catch block: the template literals as they are
\* written, with the escaped expression in them.
FallbackWrapper(expression, displayMode) ==
    IF displayMode
    THEN <<ErrorDivOpen, Dollar, Dollar>> \o FallbackEscape(expression)
             \o <<Dollar, Dollar, ErrorDivClose>>
    ELSE <<ErrorSpanOpen, Dollar>> \o FallbackEscape(expression)
             \o <<Dollar, ErrorSpanClose>>

\* The catch block of restoreMath for one entry of the store:
\* html.replace(placeholder, wrapper).
RestoreFallback(html, placeholder, expression, displayMode) ==
    ReplaceWithString(html, placeholder, FallbackWrapper(expression, displayMode))

\* ------------------------------------------------------------------------
\* State
\* ------------------------------------------------------------------------

VARIABLES
    mathStore,       \* module level: the Map of the placeholders
    mathCounter,     \* module level: the number of the next placeholder
    _renderContext,  \* module level: the context the embed renderer reads
    storeOwner,      \* history: the call whose entry created mathStore
    pc,              \* per call: "idle", "awaiting", "returned", "rejected"
    markdown,        \* per call: the markdown argument
    context,         \* per call: the context argument
    rawHtml,         \* per call: what marked.parse returned
    withMath,        \* per call: what restoreMath returned
    sanitizedHtml,   \* per call: what the call returned
    meta,            \* the last extractTitle / extractDescription call
    viewer           \* the MarkdownViewer component and its continuations

vars == <<mathStore, mathCounter, _renderContext, storeOwner,
          pc, markdown, context, rawHtml, withMath, sanitizedHtml,
          meta, viewer>>

\* The variables renderMarkdown itself never touches.
outside == <<meta, viewer>>

\* The variables of renderMarkdown and of the module it lives in.
rendering == <<mathStore, mathCounter, _renderContext, storeOwner,
               pc, markdown, context, rawHtml, withMath, sanitizedHtml>>

Calls == 1 .. MaxCalls

\* A continuation of the viewer that waits on call c of renderMarkdown:
\*   kind      "none", "onMount" or "effect"
\*   at        where it stands: "idle", "call", "tick", "mermaid", "import",
\*             "render", "attach", "finally", "done"
\*   content   the content it renders
\*   mermaid   how its initMermaid went: "notRun", "noContainer",
\*             "noElements", "importFailed", "looped"
\*   attached  whether the elements of its NodeList are those of the DOM
\*   list      the elements of its NodeList once they left the DOM
\*   i, ok     the element mermaid.render works on and whether it succeeds
NoFlow ==
    [kind |-> "none", at |-> "idle", content |-> <<>>, mermaid |-> "notRun",
     attached |-> FALSE, list |-> <<>>, i |-> 0, ok |-> FALSE]

\* The component as it is constructed: the props are not read yet, the
\* skeleton is what the template shows.
\*   renderedHtml, isRendering   the $state of the component
\*   effect     "now" when the $effect runs in the flush that is under way,
\*              "scheduled" when a later flush will run it, "none" otherwise
\*   dom        "skeleton" or "content": the branch of the template in the
\*              DOM; contentEl is bound when it is "content"
\*   shown      the HTML mounted in the container
\*   els        the .mermaid elements of the container: code and state
\*              ("raw", "rendered", "error")
\*   listeners  the click listeners on the container
\*   changes    how often the content prop was changed
\*   queue      the calls of renderMarkdown whose promise the component has
\*              not handled yet, in the order they were started: the jobs
\*              of the promises run in that order
\*   raced      history: the content prop was changed while a call was in
\*              the queue
ViewerInit ==
    [mounted |-> FALSE, content |-> <<>>, renderedHtml |-> <<>>,
     isRendering |-> TRUE, effect |-> "none", dom |-> "skeleton",
     shown |-> <<>>, els |-> <<>>, listeners |-> 0, changes |-> 0,
     queue |-> <<>>, raced |-> FALSE,
     flows |-> [c \in Calls |-> NoFlow]]

Init ==
    /\ mathStore = <<>>
    /\ mathCounter = 0
    /\ _renderContext = EmptyContext
    /\ storeOwner = 0
    /\ pc = [c \in Calls |-> "idle"]
    /\ markdown = [c \in Calls |-> <<>>]
    /\ context = [c \in Calls |-> None]
    /\ rawHtml = [c \in Calls |-> <<>>]
    /\ withMath = [c \in Calls |-> <<>>]
    /\ sanitizedHtml = [c \in Calls |-> <<>>]
    /\ meta = NoMeta
    /\ viewer = ViewerInit

\* ------------------------------------------------------------------------
\* renderMarkdown
\* ------------------------------------------------------------------------

\* resetMathStore(), ms being the store and the counter it replaces.
resetMathStore(ms) == EmptyStore

\* A variant of Begin that parses the text before the context is stored.
BeginStaleContext(c, md, ctx) ==
    /\ pc[c] # "awaiting"
    /\ LET ms  == resetMathStore([store |-> mathStore, counter |-> mathCounter])
           pre == preprocessMarkdown(md, ms)
       IN  /\ mathStore' = pre.ms.store
           /\ mathCounter' = pre.ms.counter
           /\ _renderContext' = ContextOrEmpty(ctx)
           /\ storeOwner' = c
           /\ markdown' = [markdown EXCEPT ![c] = md]
           /\ context' = [context EXCEPT ![c] = ctx]
           /\ withMath' = [withMath EXCEPT ![c] = <<>>]
           /\ sanitizedHtml' = [sanitizedHtml EXCEPT ![c] = <<>>]
           /\ IF pre.threw
              THEN /\ pc' = [pc EXCEPT ![c] = "rejected"]
                   /\ rawHtml' = [rawHtml EXCEPT ![c] = <<>>]
              ELSE /\ pc' = [pc EXCEPT ![c] = "awaiting"]
                   /\ rawHtml' = [rawHtml EXCEPT ![c] =
                                     MarkedParse(pre.text, _renderContext)]

\* renderMarkdown from its entry to the await of marked.parse: the math
\* store is reset, the context is stored, the text is preprocessed and
\* parsed.  An exception of the preprocessing rejects the promise at once.
Begin(c, md, ctx) ==
    /\ pc[c] # "awaiting"
    /\ LET ms  == resetMathStore([store |-> mathStore, counter |-> mathCounter])
           pre == preprocessMarkdown(md, ms)
       IN  /\ mathStore' = pre.ms.store
           /\ mathCounter' = pre.ms.counter
           /\ _renderContext' = ContextOrEmpty(ctx)
           /\ storeOwner' = c
           /\ markdown' = [markdown EXCEPT ![c] = md]
           /\ context' = [context EXCEPT ![c] = ctx]
           /\ withMath' = [withMath EXCEPT ![c] = <<>>]
           /\ sanitizedHtml' = [sanitizedHtml EXCEPT ![c] = <<>>]
           /\ IF pre.threw
              THEN /\ pc' = [pc EXCEPT ![c] = "rejected"]
                   /\ rawHtml' = [rawHtml EXCEPT ![c] = <<>>]
              ELSE /\ pc' = [pc EXCEPT ![c] = "awaiting"]
                   /\ rawHtml' = [rawHtml EXCEPT ![c] =
                                     MarkedParse(pre.text, _renderContext')]

\* renderMarkdown from the await to its return: math is restored from the
\* store as it is now, the HTML is sanitized and the context is cleared.
Resume(c) ==
    /\ pc[c] = "awaiting"
    /\ withMath' = [withMath EXCEPT ![c] = restoreMath(rawHtml[c], mathStore)]
    /\ sanitizedHtml' = [sanitizedHtml EXCEPT ![c] =
                            Sanitize(withMath'[c], SANITIZE_CONFIG)]
    /\ _renderContext' = EmptyContext
    /\ pc' = [pc EXCEPT ![c] = "returned"]
    /\ UNCHANGED <<mathStore, mathCounter, storeOwner, markdown, context, rawHtml>>

\* ------------------------------------------------------------------------
\* Concurrent calls
\* ------------------------------------------------------------------------

NoteMd == <<Txt("Note"), Dot, Txt("md")>>

ContextA ==
    [slug |-> "alpha",
     folderItems |-> Some(<<[path |-> NoteMd, name |-> "Note of A", type |-> "doc"]>>)]

ContextB ==
    [slug |-> "beta",
     folderItems |-> Some(<<[path |-> NoteMd, name |-> "Note of B", type |-> "doc"]>>)]

Contexts == {None, Some(ContextA), Some(ContextB)}

PicPng == <<Txt("pic"), Dot, Txt("png")>>

ConcurrentDocs ==
    {<<Para(<<Txt("x"), MathSpan("a", FALSE)>>), Embed(PicPng, <<>>)>>,
     <<Embed(<<Txt("Note")>>, <<>>),
       Para(<<MathSpan("bad", FALSE), MathSpan(" c ", TRUE)>>)>>,
     NotAString}

Next ==
    \/ (\E c \in Calls, md \in ConcurrentDocs, ctx \in Contexts : Begin(c, md, ctx)) /\ UNCHANGED outside
    \/ (\E c \in Calls : Resume(c)) /\ UNCHANGED outside

Spec == Init /\ [][Next]_vars

\* ------------------------------------------------------------------------
\* One call at a time, documents of up to MaxItems items
\* ------------------------------------------------------------------------

ScriptText   == "<script>alert(1)</script>"
ImgText      == "<img src=x onerror=alert(1)>"
AnchorText   == "<a href=javascript:alert(1)>x</a>"
PreText      == "<pre>\n\nx</pre>"
BreakoutText == "\"><script>alert(1)</script>"
HandlerText  == "\" onclick=\"alert(1)"
JsUrlText    == "javascript:alert(1)"

RenderItems ==
    {Para(<<Txt("x"), MathSpan("a", FALSE)>>),
     Para(<<MathSpan(" c ", TRUE)>>),
     Para(<<MathSpan("bad", FALSE)>>),
     Comment(<<MathSpan("b", FALSE)>>),
     Frontmatter(<<Txt("title")>>),
     Embed(<<MathSpan("a", FALSE), Dot, Txt("png")>>, <<>>),
     Embed(PicPng, <<Txt(HandlerText)>>),
     Embed(<<Txt(BreakoutText)>>, <<>>),
     Wikilink(<<Txt("Note"), Pipe, Txt(ScriptText)>>),
     Wikilink(<<Hash, Txt("Heading"), Pipe, MathSpan("b", FALSE)>>),
     Highlight(<<Txt(ImgText)>>),
     Html(<<Txt(ScriptText)>>),
     Html(<<Txt(ImgText)>>),
     Html(<<Txt(AnchorText)>>),
     Html(<<Txt(PreText)>>),
     Link(<<Txt(JsUrlText)>>, <<Txt("click")>>),
     Code("js", <<Txt("let"), MathSpan("a", FALSE)>>),
     Code(BreakoutText, <<Txt("code")>>),
     Code(HandlerText, <<Txt("code")>>),
     Code("mermaid", <<Txt(ScriptText)>>),
     Code("mermaid", <<Txt(ImgText)>>),
     ListItem("x", <<Txt(ScriptText)>>),
     ListItem("/", <<Txt("task")>>),
     Blockquote(<<Txt("[!"), Txt("warning"), Txt("]"), Txt("+"), Space, Txt(ScriptText),
                  Nl, MathSpan("a", FALSE)>>),
     Blockquote(<<Txt("quoted"), Space, Txt(ImgText)>>)}

RenderDocs == UNION {[1 .. n -> RenderItems] : n \in 1 .. MaxItems}

RenderContexts == {None, Some(ContextA)}

\* A process that serves one call (sequences of calls are those of Spec).
NextRender ==
    \/ pc[1] = "idle" /\ \E md \in RenderDocs, ctx \in RenderContexts : Begin(1, md, ctx) /\ UNCHANGED outside
    \/ Resume(1) /\ UNCHANGED outside

SpecRender == Init /\ [][NextRender]_vars

\* ------------------------------------------------------------------------
\* One call at a time, documents that are one block quote
\* ------------------------------------------------------------------------

\* Number of lines that follow the first line in the first paragraph.
MaxBodyLines == 2

CalloutTypeNames == {"note", "warning", "TIP", "foo", "constructor"}

FoldMarkers == {<<>>, <<Txt("+")>>, <<Txt("-")>>}

HeaderRests ==
    {<<>>, <<Space>>, <<Space, Txt("Careful")>>,
     <<Space, Txt("Very"), Space, Txt("careful"), Space>>}

RECURSIVE BodyLines(_)
BodyLines(n) ==
    IF n = 0 THEN <<>>
    ELSE BodyLines(n - 1) \o <<Nl, Txt(IF n % 2 = 1 THEN "body" ELSE "more")>>

SecondParagraphs == {<<>>, <<ParaBreak, Txt("second")>>}

CalloutDocs ==
    {<<Blockquote(<<Txt("[!"), Txt(t), Txt("]")>> \o f \o r \o BodyLines(n) \o p)>> :
        t \in CalloutTypeNames, f \in FoldMarkers, r \in HeaderRests,
        n \in 0 .. MaxBodyLines, p \in SecondParagraphs}
    \cup {<<Blockquote(<<Txt("plain"), Nl, Txt("quote")>>)>>,
          <<Blockquote(<<Txt("[!"), Txt("no"), Space, Txt("te"), Txt("]"), Space,
                         Txt("text")>>)>>}

NextCallout ==
    \/ pc[1] = "idle" /\ \E md \in CalloutDocs : Begin(1, md, None) /\ UNCHANGED outside
    \/ Resume(1) /\ UNCHANGED outside

SpecCallout == Init /\ [][NextCallout]_vars

\* ------------------------------------------------------------------------
\* One call at a time, documents that are one paragraph of characters
\* ------------------------------------------------------------------------

\* The most characters of a paragraph.
MaxInline == 4

TagChars == {Txt("a"), Txt("1"), Hash, Colon, Slash, Space, Backslash, UrlStart}

WikiChars == {Txt("a"), Hash, Pipe, Space, Txt(ScriptText)}

Strings(chars, n) == UNION {[1 .. m -> chars] : m \in 1 .. n}

\* Lines of tag characters that start with no white space, and wikilinks
\* alone or followed by :#a.
InlineDocs ==
    {<<Inline(body)>> : body \in {b \in Strings(TagChars, MaxInline) : b[1] # Space}}
    \cup {<<Inline(<<Open>> \o content \o <<Close>> \o suffix)>> :
             content \in Strings(WikiChars, MaxInline - 1),
             suffix \in {<<>>, <<Colon, Hash, Txt("a")>>}}

NextInline ==
    \/ pc[1] = "idle" /\ \E md \in InlineDocs : Begin(1, md, None) /\ UNCHANGED outside
    \/ Resume(1) /\ UNCHANGED outside

SpecInline == Init /\ [][NextInline]_vars

\* ------------------------------------------------------------------------
\* One call at a time, documents that are one embed
\* ------------------------------------------------------------------------

\* The most parts (names, extensions, dots) of the target of an embed.
MaxTarget == 3

TargetParts ==
    {Txt("pic"), Txt("Note"), Txt("png"), Txt("PNG"), Txt("mp4"), Txt("mp3"),
     Txt("md"), Dot}

EmbedDocs == {<<Embed(target, <<>>)>> : target \in Strings(TargetParts, MaxTarget)}

NextEmbed ==
    \/ pc[1] = "idle" /\ \E md \in EmbedDocs, ctx \in RenderContexts : Begin(1, md, ctx) /\ UNCHANGED outside
    \/ Resume(1) /\ UNCHANGED outside

SpecEmbed == Init /\ [][NextEmbed]_vars

\* ------------------------------------------------------------------------
\* One call at a time, documents that are paragraphs of one math span
\* ------------------------------------------------------------------------

\* The most math spans of a document.
MaxSpans == 3

MathParas == {Para(<<MathSpan(e, d)>>) : e \in {"a", "bad", "&x"}, d \in BOOLEAN}

MathDocs == Strings(MathParas, MaxSpans)

NextMath ==
    \/ pc[1] = "idle" /\ \E md \in MathDocs : Begin(1, md, None) /\ UNCHANGED outside
    \/ Resume(1) /\ UNCHANGED outside

SpecMath == Init /\ [][NextMath]_vars

\* ------------------------------------------------------------------------
\* One call at a time, a paragraph that holds the text of placeholder ids
\* ------------------------------------------------------------------------

\* The most atoms of the paragraph.
MaxForged == 3

\* What the paragraph is made of: the characters of the first two
\* placeholder ids, written in the document itself, math spans, a word.
ForgedAtoms ==
    {PlaceholderId(0), PlaceholderId(1),
     MathSpan("a", FALSE), MathSpan("b", TRUE), Txt("t")}

ForgedDocs == {<<Para(body)>> : body \in Strings(ForgedAtoms, MaxForged)}

NextForged ==
    \/ pc[1] = "idle" /\ \E md \in ForgedDocs : Begin(1, md, None) /\ UNCHANGED outside
    \/ Resume(1) /\ UNCHANGED outside

SpecForged == Init /\ [][NextForged]_vars

\* ------------------------------------------------------------------------
\* One call at a time, lines of wikilinks and embeds
\* ------------------------------------------------------------------------

MaxWikiPieces == 4

\* The pieces a line is made of: !, [[a]], a letter, a blank, a
\* backslash, [[ and ]] on their own.
WikiPieces ==
    {<<Bang>>, <<Open, Txt("a"), Close>>, <<Txt("a")>>, <<Space>>,
     <<Backslash>>, <<Open>>, <<Close>>}

\* The lines: they start with no white space, and no backslash stands
\* before a bracket.
WikiLines ==
    {b \in {Concat(ps) : ps \in Strings(WikiPieces, MaxWikiPieces)} :
        /\ b[1] # Space
        /\ \A i \in 1 .. Len(b) - 1 : b[i] = Backslash => b[i + 1] \notin {Open, Close}}

WikiDocs == {<<Inline(b)>> : b \in WikiLines}

NextWiki ==
    \/ pc[1] = "idle" /\ \E md \in WikiDocs : Begin(1, md, None) /\ UNCHANGED outside
    \/ Resume(1) /\ UNCHANGED outside

SpecWiki == Init /\ [][NextWiki]_vars

\* ------------------------------------------------------------------------
\* One call at a time, a list item with a checkbox
\* ------------------------------------------------------------------------

\* The characters written between the brackets: those marked takes for a
\* task, other statuses of the dialect, and characters outside the safe
\* set.
TaskStatuses ==
    {" ", "x", "X", "/", "-", ">", "<", "?", "!", "*", "l", "i", "S", "b", "\"",
     "#", "&", "="}

TaskBodies == {<<Txt("task")>>, <<Txt(ScriptText)>>, <<Txt("a"), MathSpan("a", FALSE)>>}

TaskDocs == {<<ListItem(s, body)>> : s \in TaskStatuses, body \in TaskBodies}

NextTasks ==
    \/ pc[1] = "idle" /\ \E md \in TaskDocs : Begin(1, md, None) /\ UNCHANGED outside
    \/ Resume(1) /\ UNCHANGED outside

SpecTasks == Init /\ [][NextTasks]_vars

\* ------------------------------------------------------------------------
\* Calls of renderer.listitem
\* ------------------------------------------------------------------------

\* The values of _taskStatus: none, the empty string, characters of the
\* safe set, characters outside it, and strings of more than one
\* character.
AnnotatedStatuses ==
    {Undefined, "", " ", "x", "X", "/", "-", ">", "<", "?", "!", "*", "l", "i",
     "S", "b", "\"", "#", "&", "=", "'", "xx", "x\n", HandlerText}

\* The list item tokens the renderer is called with.
ListItemTokens ==
    {[type |-> "list_item", raw |-> <<Txt("- ")>> \o text, task |-> task,
      checked |-> checked, text |-> text, taskStatus |-> s] :
        task \in BOOLEAN, checked \in BOOLEAN, s \in AnnotatedStatuses,
        text \in {<<Txt("task")>>, <<Txt(ScriptText)>>}}

\* The parser calls renderer.listitem for a token; meta holds one call.
RenderListItem ==
    /\ meta = NoMeta
    /\ \E token \in ListItemTokens :
          meta' = Extracted("listitem", token, <<>>, ListItemRenderer(token))
    /\ UNCHANGED <<rendering, viewer>>

NextListItem == RenderListItem

SpecListItem == Init /\ [][NextListItem]_vars

\* ------------------------------------------------------------------------
\* restoreMath for an expression the library throws on
\* ------------------------------------------------------------------------

MaxExpression == 3

\* The characters of the expressions.
ExpressionChars == {Letter, Dollar, Amp, Lt, Apostrophe, Backtick}

\* The expressions protectMath can store: an inline expression holds no
\* $, a display expression no $$.
Expressions(displayMode) ==
    {e \in Strings(ExpressionChars, MaxExpression) :
        IF displayMode
        THEN \A i \in 1 .. Len(e) - 1 : ~(e[i] = Dollar /\ e[i + 1] = Dollar)
        ELSE \A i \in DOMAIN e : e[i] # Dollar}

\* The HTML around the placeholder.
AroundPlaceholder(id) == <<Lit("<p>"), Txt("p"), id, Txt("q"), Lit("</p>")>>

\* restoreMath reaches an entry on which katex.renderToString throws;
\* meta holds the entry and the HTML after the replace.
RestoreThrowing ==
    /\ meta = NoMeta
    /\ \E d \in BOOLEAN : \E e \in Expressions(d) :
          meta' = Extracted("restoreMath",
                            [expression |-> e, displayMode |-> d], <<>>,
                            RestoreFallback(AroundPlaceholder(PlaceholderId(0)),
                                            PlaceholderId(0), e, d))
    /\ UNCHANGED <<rendering, viewer>>

NextFallback == RestoreThrowing

SpecFallback == Init /\ [][NextFallback]_vars

\* ------------------------------------------------------------------------
\* Calls of extractTitle
\* ------------------------------------------------------------------------

MaxFmLines == 2
MaxTextLines == 2

\* Lines of a frontmatter block: a title with a value, bare or quoted, a
\* title without a value, with or without a space after the colon,
\* another key, and an empty line.
FmLines ==
    {<<Txt("title"), Colon, Space, Txt("Foo")>>,
     <<Txt("title"), Colon, Space, Quote, Txt("Foo"), Quote>>,
     <<Txt("title"), Colon>>,
     <<Txt("title"), Colon, Space>>,
     <<Txt("author"), Colon, Space, Txt("Bob")>>,
     <<>>}

\* Lines of the text: a first-level heading, a heading without a text, a
\* second-level heading, a line of text.
TextLines ==
    {<<Hash, Space, Txt("Hello")>>,
     <<Hash>>,
     <<Hash, Hash, Space, Txt("Sub")>>,
     <<Txt("Body")>>}

Texts ==
    {[i \in DOMAIN t |-> Inline(t[i])] :
        t \in UNION {[1 .. n -> TextLines] : n \in 0 .. MaxTextLines}}

TitleDocs ==
    Texts \cup {<<Frontmatter([i \in DOMAIN fm |-> FmLine(fm[i])])>> \o t :
                  fm \in Strings(FmLines, MaxFmLines), t \in Texts}

DefaultTitle == <<Txt("Untitled")>>

\* A caller calls extractTitle; meta holds one call.
ExtractTitle ==
    /\ meta = NoMeta
    /\ \E md \in TitleDocs :
          meta' = Extracted("extractTitle", md, DefaultTitle, extractTitle(md, DefaultTitle))
    /\ UNCHANGED <<rendering, viewer>>

NextTitle == ExtractTitle

SpecTitle == Init /\ [][NextTitle]_vars

\* ------------------------------------------------------------------------
\* Calls of extractDescription
\* ------------------------------------------------------------------------

MaxDescLines == 3

\* Lines of a text: words of 3, 80, 160 and 161 letters, a heading, a code
\* fence, a callout header, an empty line, a rule of stars, an HTML tag on
\* its own, an emphasised word.
DescLines ==
    {<<Run("a", 3)>>, <<Run("a", 80)>>, <<Run("a", 160)>>, <<Run("a", 161)>>,
     <<Hash, Space, Run("a", 3)>>,
     <<Backtick, Backtick, Backtick>>,
     <<Gt, Space, LBracket, Bang, Txt("note")>>,
     <<>>,
     <<Star, Star, Star>>,
     <<Lt, Txt("br"), Gt>>,
     <<Star, Run("b", 3), Star>>}

DescTexts ==
    {[i \in DOMAIN t |-> Inline(t[i])] :
        t \in UNION {[1 .. n -> DescLines] : n \in 0 .. MaxDescLines}}

DescFrontmatters ==
    {<<>>,
     <<Frontmatter(<<FmLine(<<Txt("author"), Colon, Space, Txt("Bob")>>)>>)>>,
     <<Frontmatter(<<FmLine(<<Txt("description"), Colon, Space, Txt("Desc")>>)>>)>>}

DescDocs == {fm \o t : fm \in DescFrontmatters, t \in DescTexts}

Fallbacks == {<<>>, <<Txt("fallback")>>}

\* A caller calls extractDescription; meta holds one call.
ExtractDescription ==
    /\ meta = NoMeta
    /\ \E md \in DescDocs, fallback \in Fallbacks :
          meta' = Extracted("extractDescription", md, fallback,
                            extractDescription(md, fallback))
    /\ UNCHANGED <<rendering, viewer>>

NextDescription == ExtractDescription

SpecDescription == Init /\ [][NextDescription]_vars

\* ------------------------------------------------------------------------
\* Calls of protectMath on texts given character by character
\* ------------------------------------------------------------------------

MaxPieces == 4

\* The pieces the texts are made of: a grave accent, a fence, $, $$, a
\* backslash, a blank, a line end, a letter, a digit, an inline math span,
\* and the characters of the sentinel of the first code block.
ProtectPieces ==
    {<<Backtick>>, <<Backtick, Backtick, Backtick>>,
     <<Dollar>>, <<Dollar, Dollar>>,
     <<Backslash>>, <<Space>>, <<Nl>>, <<Letter>>, <<Digit>>,
     <<Dollar, Letter, Dollar>>,
     <<CodeSentinel(0)>>}

ProtectTexts == {Concat(ps) : ps \in Strings(ProtectPieces, MaxPieces)}

\* preprocessMarkdown calls protectMath on a text without frontmatter and
\* comments, after resetMathStore; meta holds one call.
ProtectMath ==
    /\ meta = NoMeta
    /\ \E text \in ProtectTexts :
          meta' = Extracted("protectMath", text, <<>>,
                            ProtectMathChars(text, EmptyStore))
    /\ UNCHANGED <<rendering, viewer>>

NextProtect == ProtectMath

SpecProtect == Init /\ [][NextProtect]_vars

\* ------------------------------------------------------------------------
\* MarkdownViewer
\* ------------------------------------------------------------------------

\* Number of times the content prop is changed after the mount.
MaxChanges == 1

\* Diagram sources on which mermaid.render throws.
MermaidThrowing == {"oops"}

\* Values of the content prop: three diagrams, the first invalid and the
\* second blank; a paragraph with a formula; the empty string; undefined;
\* a number.
ViewerDocs ==
    {<<Code("mermaid", <<Txt("oops")>>), Code("mermaid", <<Space>>),
       Code("mermaid", <<Txt("graph")>>)>>,
     <<Para(<<Txt("x"), MathSpan("a", FALSE)>>)>>,
     <<>>,
     NotAString,
     ANumber}

\* { slug, folderItems } of the props.
ViewerContext == ContextA

\* if (content)
Truthy(content) == content \notin {NotAString, <<>>}

ErrorPlaceholder ==
    <<Node("p", <<Class("error")>>, <<Lit("Failed to render document")>>)>>

IsMermaid(n) == \E j \in DOMAIN n.attrs : n.attrs[j] = Class("mermaid")

\* What contentEl.querySelectorAll('.mermaid') finds in HTML that was just
\* mounted.
FreshEls(html) ==
    LET found == SelectSeq(html, IsMermaid)
    IN  [i \in DOMAIN found |-> [code |-> found[i].body, state |-> "raw"]]

\* The elements of the NodeList of continuation c.
Els(v, c) == IF v.flows[c].attached THEN v.els ELSE v.flows[c].list

\* The continuations once the elements of the container are replaced:
\* their NodeLists keep the elements, which are no longer in the DOM.
Detached(v) ==
    [c \in Calls |->
        IF v.flows[c].attached
        THEN [v.flows[c] EXCEPT !.attached = FALSE, !.list = v.els]
        ELSE v.flows[c]]

\* The component once Svelte has brought the DOM up to date with the
\* state: {#if isRendering} skeleton {:else} container with {@html}.
Flushed(v) ==
    IF v.isRendering
    THEN IF v.dom = "skeleton" THEN v
         ELSE [v EXCEPT !.dom = "skeleton", !.shown = <<>>, !.els = <<>>,
                        !.listeners = 0, !.flows = Detached(v)]
    ELSE IF v.dom = "skeleton"
         THEN [v EXCEPT !.dom = "content", !.shown = v.renderedHtml,
                        !.els = FreshEls(v.renderedHtml)]
         ELSE IF v.shown = v.renderedHtml THEN v
              ELSE [v EXCEPT !.shown = v.renderedHtml,
                             !.els = FreshEls(v.renderedHtml),
                             !.flows = Detached(v)]

\* el.textContent is not blank: the code of a diagram, or what a rendering
\* or an error message left in the element.
HasCode(el) == el.state # "raw" \/ TrimStr(el.code) # <<>>

MermaidThrows(el) ==
    el.state # "raw" \/ \E i \in DOMAIN el.code : el.code[i].s \in MermaidThrowing

\* The loop of initMermaid from element j on: elements without code are
\* passed over, mermaid.render is called for the first that has some, and
\* the loop ends after the last.
RECURSIVE LoopFrom(_, _, _)
LoopFrom(flow, els, j) ==
    IF j > Len(els) THEN [flow EXCEPT !.at = "attach", !.mermaid = "looped"]
    ELSE IF ~HasCode(els[j]) THEN LoopFrom(flow, els, j + 1)
    ELSE [flow EXCEPT !.at = "render", !.i = j, !.ok = ~MermaidThrows(els[j])]

\* The component is mounted: onMount calls renderMarkdown, and the $effect
\* runs in the same flush.
Mount ==
    /\ ~viewer.mounted
    /\ \E md \in ViewerDocs :
          /\ Begin(1, md, Some(ViewerContext))
          /\ viewer' = [viewer EXCEPT
                           !.mounted = TRUE, !.content = md, !.effect = "now",
                           !.queue = <<1>>,
                           !.flows[1] = [NoFlow EXCEPT !.kind = "onMount",
                                                       !.at = "call",
                                                       !.content = md]]
    /\ UNCHANGED meta

\* The calls no continuation of the viewer waits on.
FreeCalls == {c \in Calls : viewer.flows[c].at \in {"idle", "done"}}

\* The $effect runs: with a truthy content it sets isRendering and calls
\* renderMarkdown.
RunEffect ==
    /\ viewer.effect # "none"
    /\ IF Truthy(viewer.content)
       THEN /\ FreeCalls # {}
            /\ Begin(Min(FreeCalls), viewer.content, Some(ViewerContext))
            /\ viewer' = [viewer EXCEPT
                             !.isRendering = TRUE, !.effect = "none",
                             !.queue = Append(@, Min(FreeCalls)),
                             !.flows[Min(FreeCalls)] =
                                 [NoFlow EXCEPT !.kind = "effect", !.at = "call",
                                                !.content = viewer.content]]
       ELSE /\ viewer' = [viewer EXCEPT !.effect = "none"]
            /\ UNCHANGED rendering
    /\ UNCHANGED meta

\* The parent gives the component another content.
ChangeContent ==
    /\ viewer.mounted
    /\ viewer.effect = "none"
    /\ viewer.changes < MaxChanges
    /\ \E md \in ViewerDocs \ {viewer.content} :
          viewer' = [viewer EXCEPT !.content = md, !.effect = "scheduled",
                                   !.changes = @ + 1,
                                   !.raced = @ \/ viewer.queue # <<>>]
    /\ UNCHANGED <<rendering, meta>>

\* Svelte brings the DOM up to date on its own.
Flush ==
    /\ viewer.effect # "now"
    /\ Flushed(viewer) # viewer
    /\ viewer' = Flushed(viewer)
    /\ UNCHANGED <<rendering, meta>>

\* The calls of the queue that were started before call c.
Older(c) ==
    {viewer.queue[j] : j \in {k \in DOMAIN viewer.queue :
                                 \E l \in DOMAIN viewer.queue :
                                    k < l /\ viewer.queue[l] = c}}

\* renderMarkdown resumes after its await and returns: the calls resume in
\* the order in which they reached the await.
CallReturns(c) ==
    /\ viewer.effect # "now"
    /\ viewer.flows[c].at = "call"
    /\ \A d \in Older(c) : pc[d] # "awaiting"
    /\ Resume(c)
    /\ UNCHANGED outside

\* A variant of Rendered in which a promise is handled before the promises
\* of the calls started earlier.
RenderedOutOfOrder(c) ==
    /\ viewer.effect # "now"
    /\ viewer.flows[c].at = "call"
    /\ pc[c] = "returned"
    /\ viewer' = [viewer EXCEPT !.renderedHtml = sanitizedHtml[c],
                                !.queue = SelectSeq(@, LAMBDA d : d # c),
                                !.flows[c].at = "tick"]
    /\ UNCHANGED <<rendering, meta>>

\* The promise of renderMarkdown is fulfilled: renderedHtml = html, then
\* await tick().  The promises are handled in the order of their calls.
Rendered(c) ==
    /\ viewer.effect # "now"
    /\ viewer.flows[c].at = "call"
    /\ pc[c] = "returned"
    /\ Head(viewer.queue) = c
    /\ viewer' = [viewer EXCEPT !.renderedHtml = sanitizedHtml[c],
                                !.queue = Tail(@),
                                !.flows[c].at = "tick"]
    /\ UNCHANGED <<rendering, meta>>

\* A variant of Rejected that shows the message of the error.
RejectedShowsDetail(c) ==
    /\ viewer.effect # "now"
    /\ viewer.flows[c].at = "call"
    /\ pc[c] = "rejected"
    /\ Head(viewer.queue) = c
    /\ viewer' = IF viewer.flows[c].kind = "onMount"
                 THEN [viewer EXCEPT
                          !.renderedHtml = <<Node("p", <<Class("error")>>,
                                                  <<Lit("TypeError")>>)>>,
                          !.isRendering = FALSE,
                          !.queue = Tail(@),
                          !.flows[c].at = "done"]
                 ELSE [viewer EXCEPT
                          !.renderedHtml = <<Node("p", <<Class("error")>>,
                                                  <<Lit("TypeError")>>)>>,
                          !.queue = Tail(@),
                          !.flows[c].at = "finally"]
    /\ UNCHANGED <<rendering, meta>>

\* The promise of renderMarkdown is rejected: the catch block of onMount,
\* with its finally block, or the catch callback of the $effect.
Rejected(c) ==
    /\ viewer.effect # "now"
    /\ viewer.flows[c].at = "call"
    /\ pc[c] = "rejected"
    /\ Head(viewer.queue) = c
    /\ viewer' = IF viewer.flows[c].kind = "onMount"
                 THEN [viewer EXCEPT !.renderedHtml = ErrorPlaceholder,
                                     !.isRendering = FALSE,
                                     !.queue = Tail(@),
                                     !.flows[c].at = "done"]
                 ELSE [viewer EXCEPT !.renderedHtml = ErrorPlaceholder,
                                     !.queue = Tail(@),
                                     !.flows[c].at = "finally"]
    /\ UNCHANGED <<rendering, meta>>

\* tick() resolves: the DOM is up to date.
Tick(c) ==
    /\ viewer.effect # "now"
    /\ viewer.flows[c].at = "tick"
    /\ viewer' = [Flushed(viewer) EXCEPT !.flows[c].at = "mermaid"]
    /\ UNCHANGED <<rendering, meta>>

\* initMermaid up to its first await: it returns when contentEl is not
\* bound or holds no .mermaid element, and imports mermaid otherwise.
InitMermaid(c) ==
    /\ viewer.effect # "now"
    /\ viewer.flows[c].at = "mermaid"
    /\ viewer' =
          IF viewer.dom # "content"
          THEN [viewer EXCEPT !.flows[c].mermaid = "noContainer",
                              !.flows[c].at = "attach"]
          ELSE IF viewer.els = <<>>
          THEN [viewer EXCEPT !.flows[c].mermaid = "noElements",
                              !.flows[c].at = "attach"]
          ELSE [viewer EXCEPT !.flows[c].attached = TRUE,
                              !.flows[c].at = "import"]
    /\ UNCHANGED <<rendering, meta>>

\* import('mermaid') settles: the loop starts, or the outer catch logs the
\* failure.
Imported(c) ==
    /\ viewer.effect # "now"
    /\ viewer.flows[c].at = "import"
    /\ \E loaded \in BOOLEAN :
          viewer' =
             IF loaded
             THEN [viewer EXCEPT !.flows[c] = LoopFrom(@, Els(viewer, c), 1)]
             ELSE [viewer EXCEPT !.flows[c].mermaid = "importFailed",
                                 !.flows[c].at = "attach"]
    /\ UNCHANGED <<rendering, meta>>

\* mermaid.render settles for element i: the element takes the diagram or
\* the error message, and the loop goes on.
RenderSettled(c) ==
    /\ viewer.effect # "now"
    /\ viewer.flows[c].at = "render"
    /\ LET flow == viewer.flows[c]
           els  == [Els(viewer, c) EXCEPT
                       ![flow.i].state = IF flow.ok THEN "rendered" ELSE "error"]
           v    == IF flow.attached
                   THEN [viewer EXCEPT !.els = els]
                   ELSE [viewer EXCEPT !.flows[c].list = els]
       IN  viewer' = [v EXCEPT !.flows[c] = LoopFrom(@, els, flow.i + 1)]
    /\ UNCHANGED <<rendering, meta>>

\* initMermaid has returned: attachDelegatedHandlers, and for onMount its
\* finally block.
Attach(c) ==
    /\ viewer.effect # "now"
    /\ viewer.flows[c].at = "attach"
    /\ LET v == IF viewer.dom = "content"
                THEN [viewer EXCEPT !.listeners = @ + 1] ELSE viewer
       IN  viewer' = IF viewer.flows[c].kind = "onMount"
                     THEN [v EXCEPT !.isRendering = FALSE, !.flows[c].at = "done"]
                     ELSE [v EXCEPT !.flows[c].at = "finally"]
    /\ UNCHANGED <<rendering, meta>>

\* The finally callback of the $effect.
Finally(c) ==
    /\ viewer.effect # "now"
    /\ viewer.flows[c].at = "finally"
    /\ viewer' = [viewer EXCEPT !.isRendering = FALSE, !.flows[c].at = "done"]
    /\ UNCHANGED <<rendering, meta>>

NextViewer ==
    \/ Mount
    \/ RunEffect
    \/ ChangeContent
    \/ Flush
    \/ \E c \in Calls : CallReturns(c)
    \/ \E c \in Calls : Rendered(c)
    \/ \E c \in Calls : Rejected(c)
    \/ \E c \in Calls : Tick(c)
    \/ \E c \in Calls : InitMermaid(c)
    \/ \E c \in Calls : Imported(c)
    \/ \E c \in Calls : RenderSettled(c)
    \/ \E c \in Calls : Attach(c)
    \/ \E c \in Calls : Finally(c)

SpecViewer == Init /\ [][NextViewer]_vars

\* The continuations of the viewer and the flush of the DOM.
Continuation ==
    \/ Flush
    \/ \E c \in Calls :
          \/ Rendered(c) \/ Rejected(c) \/ Tick(c) \/ InitMermaid(c)
          \/ Imported(c) \/ RenderSettled(c) \/ Attach(c) \/ Finally(c)

\* RunEffect is enabled.
EffectReady ==
    viewer.effect # "none" /\ (Truthy(viewer.content) => FreeCalls # {})

\* CallReturns(c) is enabled.
CallReady(c) ==
    /\ viewer.effect # "now"
    /\ viewer.flows[c].at = "call"
    /\ pc[c] = "awaiting"
    /\ \A d \in Older(c) : pc[d] # "awaiting"

\* The event loop does not stop while something is ready to run, and the
\* promises the viewer awaits settle: weak fairness of the continuations,
\* of RunEffect and of every CallReturns(c), the last two written with
\* their enabling conditions (a step of either disables it).
FairViewer ==
    /\ WF_vars(Continuation)
    /\ []<>~EffectReady
    /\ \A c \in Calls : []<>~CallReady(c)

SpecViewerFair == SpecViewer /\ FairViewer

\* ------------------------------------------------------------------------
\* Properties of concurrent calls
\* ------------------------------------------------------------------------

\* The context a call resolves its embeds against when it is on its own.
OwnContext(c) == ContextOrEmpty(context[c])

\* The placeholders the preprocessing of a call's own document creates.
OwnStore(c) == preprocessMarkdown(markdown[c], EmptyStore).ms.store

HasClass(n, cls) ==
    \E j \in DOMAIN n.attrs : n.attrs[j].name = "class" /\ n.attrs[j].val = <<Lit(cls)>>

AttrVal(n, name) ==
    LET js == {j \in DOMAIN n.attrs : n.attrs[j].name = name}
    IN  IF js = {} THEN <<>> ELSE n.attrs[Min(js)].val

HasEmbed(md) == \E i \in DOMAIN md : md[i].k = "embed"

\* C1: with calls interleaved at the await, every embed of a document is
\* resolved against the context passed to its own call: the HTML parsed
\* for a call is the HTML of its text under its own context, and in the
\* HTML it returns every embedded image has its own slug in src and every
\* found note carries the name its own folderItems give.
C1_EmbedsUseOwnContext ==
    \A c \in Calls :
        /\ pc[c] \in {"awaiting", "returned"} =>
              rawHtml[c] = MarkedParse(preprocessMarkdown(markdown[c], EmptyStore).text,
                                       OwnContext(c))
        /\ pc[c] = "returned" =>
              \A i \in DOMAIN sanitizedHtml[c] :
                 LET n == sanitizedHtml[c][i] IN
                 /\ (n.tag = "img" /\ HasClass(n, "obsidian-embed-image")) =>
                        /\ OwnContext(c).slug # Undefined
                        /\ SubSeq(AttrVal(n, "src"), 1, 3)
                             = <<Lit("/"), Txt(OwnContext(c).slug), Lit("/_assets/")>>
                 /\ HasClass(n, "obsidian-embed-note-name") =>
                        /\ OwnContext(c).folderItems # None
                        /\ \E k \in DOMAIN OwnContext(c).folderItems[1] :
                              n.body = escapeHtml(<<Txt(OwnContext(c).folderItems[1][k].name)>>)

\* Two calls with different contexts and embeds were in flight together:
\* one has returned its embeds, the other, begun later, is still awaiting
\* and the module-level context has already been cleared under it.
C1_Witness ==
    \E c, d \in Calls :
        /\ c # d
        /\ pc[c] = "returned" /\ pc[d] = "awaiting"
        /\ storeOwner = d /\ _renderContext = EmptyContext
        /\ context[c] # None /\ context[d] # None /\ context[c] # context[d]
        /\ HasEmbed(markdown[c]) /\ HasEmbed(markdown[d])
        /\ \E i \in DOMAIN sanitizedHtml[c] :
              HasClass(sanitizedHtml[c][i], "obsidian-embed-image")

\* C2: with calls interleaved, every math placeholder of a document is
\* replaced by the rendering of the expression extracted from that same
\* document: what restoreMath returns for a call is its parsed HTML with
\* the placeholders of its own document restored.
C2_MathFromOwnDocument ==
    \A c \in Calls :
        pc[c] = "returned" => withMath[c] = restoreMath(rawHtml[c], OwnStore(c))

\* C5: every call resets the per-render state on entry (the store then
\* holds the placeholders of its own document only) and leaves
\* _renderContext empty when it exits, by return or by exception.
C5_ExitLeavesContextEmpty ==
    [][\A c \in Calls :
          /\ (pc[c] # "awaiting" /\ pc'[c] = "awaiting")
             => mathStore' = preprocessMarkdown(markdown'[c], EmptyStore).ms.store
          /\ (pc'[c] # pc[c] /\ pc'[c] \in {"returned", "rejected"})
             => _renderContext' = EmptyContext]_vars

\* C6: once a call has returned, the placeholder store holds none of the
\* entries it created.
C6_StoreDoesNotOutliveCall ==
    \A c \in Calls : pc[c] = "returned" => ~(storeOwner = c /\ mathStore # <<>>)

\* ------------------------------------------------------------------------
\* Properties of a single call
\* ------------------------------------------------------------------------

HasPlaceholder(html) ==
    \E i \in DOMAIN html : \E j \in DOMAIN NodeAtoms(html[i]) : NodeAtoms(html[i])[j].k = "ph"

\* C3: in a single call no placeholder id occurs in the HTML handed to the
\* sanitizer nor in the HTML returned, wherever the math span was written.
C3_NoPlaceholderReachesSanitizer ==
    \A c \in Calls :
        pc[c] = "returned" =>
            ~HasPlaceholder(withMath[c]) /\ ~HasPlaceholder(sanitizedHtml[c])

\* Attribute names of the model that are inline event handlers (on*).
HandlerAttrs == {"onclick", "onerror", "onload"}

\* Attributes whose value is a URL.
UrlAttrs == {"href", "src", "xlink:href"}

IsScriptVector(n) ==
    \/ n.tag = "script"
    \/ \E j \in DOMAIN n.attrs :
          \/ n.attrs[j].name \in HandlerAttrs
          \/ /\ n.attrs[j].name \in UrlAttrs
             /\ n.attrs[j].val # <<>>
             /\ n.attrs[j].val[1].k = "txt"
             /\ n.attrs[j].val[1].s \in ScriptUrls
    \/ \E j \in DOMAIN n.body : IsRawMarkup(n.body[j])

\* C4: the HTML returned holds no script element, no inline event handler
\* attribute and no javascript: URL, whatever the renderers interpolated.
C4_NoScriptInOutput ==
    \A c \in Calls :
        pc[c] = "returned" =>
            \A i \in DOMAIN sanitizedHtml[c] : ~IsScriptVector(sanitizedHtml[c][i])

\* A call has returned whose HTML, as handed to the sanitizer, held a
\* script element made by the code renderer from the language of a fence
\* and an event handler made from a mermaid block.
C4_Witness ==
    /\ pc[1] = "returned"
    /\ markdown[1] = <<Code(BreakoutText, <<Txt("code")>>), Code("mermaid", <<Txt(ImgText)>>)>>
    /\ \E i \in DOMAIN HtmlParse(withMath[1]) : HtmlParse(withMath[1])[i].tag = "script"
    /\ \E i \in DOMAIN HtmlParse(withMath[1]) :
          \E j \in DOMAIN HtmlParse(withMath[1])[i].attrs :
             HtmlParse(withMath[1])[i].attrs[j].name = "onerror"
    /\ sanitizedHtml[1] # <<>>

\* ------------------------------------------------------------------------
\* Properties of callouts
\* ------------------------------------------------------------------------

\* The lines of the first paragraph of the block quote a document is.
QuoteLines(md) == SplitOn(SplitOn(md[1].body, ParaBreak)[1], Nl)

\* The document is one block quote whose first line is [!type]...
IsCalloutDoc(md) ==
    /\ Len(md) = 1 /\ md[1].k = "blockquote"
    /\ LET h == QuoteLines(md)[1]
       IN  Len(h) >= 3 /\ h[1] = Txt("[!") /\ IsWord(h[2]) /\ h[3] = Txt("]")

HeaderType(md) == LowerType(QuoteLines(md)[1][2].s)

HeaderMarker(md) ==
    LET h == QuoteLines(md)[1]
    IN  IF Len(h) >= 4 /\ h[4] \in {Txt("+"), Txt("-")} THEN h[4].s ELSE ""

\* What follows [!type] and the marker on the first line, trimmed.
HeaderTitle(md) ==
    LET h == QuoteLines(md)[1]
    IN  TrimStr(SubSeq(h, IF HeaderMarker(md) = "" THEN 4 ELSE 5, Len(h)))

\* The lines that follow the first line in the same paragraph.
FurtherLines(md) == Tail(QuoteLines(md))

HasTag(html, tag) == \E i \in DOMAIN html : html[i].tag = tag

\* The text of the first element of a class, <<>> when there is none.
TextOfClass(html, cls) ==
    LET is == {i \in DOMAIN html : HasClass(html[i], cls)}
    IN  IF is = {} THEN <<>> ELSE html[Min(is)].body

\* The elements inside div.callout-content.
CalloutContent(html) ==
    LET is == {i \in DOMAIN html : HasClass(html[i], "callout-content")}
    IN  IF is = {} THEN <<>> ELSE SubSeq(html, Min(is) + 1, Len(html))

\* The further lines of the header's paragraph are the first paragraph of
\* the body, and the header line is not in the body.
BodyHoldsFurtherLines(md, html) ==
    /\ CalloutContent(html) # <<>>
    /\ CalloutContent(html)[1].tag = "p"
    /\ CalloutContent(html)[1].body = MarkedEscape(JoinWith(FurtherLines(md), Nl))
    /\ \A i \in DOMAIN CalloutContent(html) :
          ~HasAtom(CalloutContent(html)[i].body, Lit("[!"))

CalloutClass(color, type) ==
    <<Lit("callout "), Lit("callout-"), Lit(color), Lit(" "), Lit("callout-"), Txt(type)>>

\* C7: a header line [!type] Title followed by further lines in the same
\* paragraph renders as a non-foldable container with the colour class of
\* the type, the title of the header, and the further lines as body.
C7_CalloutBodyRendered ==
    \A c \in Calls :
        (/\ pc[c] = "returned"
         /\ IsCalloutDoc(markdown[c])
         /\ HeaderType(markdown[c]) \in DOMAIN CALLOUT_TYPES
         /\ HeaderMarker(markdown[c]) = ""
         /\ HeaderTitle(markdown[c]) # <<>>
         /\ FurtherLines(markdown[c]) # <<>>)
        => LET html == sanitizedHtml[c]
               md   == markdown[c]
           IN  /\ html[1].tag = "div"
               /\ AttrVal(html[1], "class")
                    = CalloutClass(CALLOUT_TYPES[HeaderType(md)].color, HeaderType(md))
               /\ ~HasTag(html, "details")
               /\ TextOfClass(html, "callout-title-text") = escapeHtml(HeaderTitle(md))
               /\ BodyHoldsFurtherLines(md, html)

\* C8: a callout is <details>/<summary> exactly when its header has a fold
\* marker and a <div> otherwise; <details> has open exactly when the
\* marker is +.
C8_FoldMarkerDecidesDetails ==
    \A c \in Calls :
        (pc[c] = "returned" /\ IsCalloutDoc(markdown[c]))
        => LET html == sanitizedHtml[c]
               m    == HeaderMarker(markdown[c])
           IN  /\ HasTag(html, "details") <=> m # ""
               /\ HasTag(html, "summary") <=> m # ""
               /\ m = "" => html[1].tag = "div" /\ AttrVal(html[1], "class")[1] = Lit("callout ")
               /\ m # "" => html[1].tag = "details"
               /\ \A i \in DOMAIN html :
                     html[i].tag = "details" =>
                        ((\E j \in DOMAIN html[i].attrs : html[i].attrs[j].name = "open")
                         <=> m = "+")

\* A callout with the marker - has returned as <details> without open.
C8_Witness ==
    /\ pc[1] = "returned"
    /\ IsCalloutDoc(markdown[1])
    /\ HeaderMarker(markdown[1]) = "-"
    /\ sanitizedHtml[1][1].tag = "details"
    /\ \A j \in DOMAIN sanitizedHtml[1][1].attrs : sanitizedHtml[1][1].attrs[j].name # "open"

\* C9: the title is the trimmed remainder of the first line, the type
\* name capitalised when that is empty, whether or not further lines
\* follow; those lines stay in the body.
C9_TitleFromFirstLine ==
    \A c \in Calls :
        (pc[c] = "returned" /\ IsCalloutDoc(markdown[c]))
        => LET html == sanitizedHtml[c]
               md   == markdown[c]
           IN  /\ TextOfClass(html, "callout-title-text")
                    = escapeHtml(IF HeaderTitle(md) # <<>> THEN HeaderTitle(md)
                                 ELSE <<Txt(Capitalize(HeaderType(md)))>>)
               /\ FurtherLines(md) # <<>> => BodyHoldsFurtherLines(md, html)

\* C10: a callout whose type is no key of the type table has the icon and
\* the colour class of note.
C10_UnknownTypeIsNote ==
    \A c \in Calls :
        (/\ pc[c] = "returned"
         /\ IsCalloutDoc(markdown[c])
         /\ HeaderType(markdown[c]) \notin DOMAIN CALLOUT_TYPES)
        => LET html == sanitizedHtml[c]
           IN  /\ TextOfClass(html, "callout-icon") = <<Lit(CALLOUT_TYPES["note"].icon)>>
               /\ AttrVal(html[1], "class")
                    = CalloutClass(CALLOUT_TYPES["note"].color, HeaderType(markdown[c]))

\* ------------------------------------------------------------------------
\* Properties of wikilinks and tags
\* ------------------------------------------------------------------------

IsInlineDoc(md) == Len(md) = 1 /\ md[1].k = "inline"

\* The document is a paragraph that starts with [[content]].
IsWikilinkDoc(md) ==
    IsInlineDoc(md) /\ md[1].body[1] = Open /\ IndexFrom(md[1].body, Close, 1) > 2

WikiContent(md) == SubSeq(md[1].body, 2, IndexFrom(md[1].body, Close, 1) - 1)

\* The target: the content before the first |, trimmed.
WikiTarget(md) ==
    LET bar == IndexFrom(WikiContent(md), Pipe, 1)
    IN  TrimStr(IF bar = 0 THEN WikiContent(md) ELSE SubSeq(WikiContent(md), 1, bar - 1))

\* The display: the content after the first |, trimmed; the target when
\* there is no |.
WikiDisplay(md) ==
    LET bar == IndexFrom(WikiContent(md), Pipe, 1)
    IN  IF bar = 0 THEN WikiTarget(md)
        ELSE TrimStr(SubSeq(WikiContent(md), bar + 1, Len(WikiContent(md))))

StartsWithHash(str) == str # <<>> /\ str[1] = Hash

\* C11: a wikilink whose target does not begin with # is an anchor with
\* href "#", data-wikilink-disabled, and the escaped display as its text.
C11_WikilinkIsInertAnchor ==
    \A c \in Calls :
        (/\ pc[c] = "returned"
         /\ IsWikilinkDoc(markdown[c])
         /\ ~StartsWithHash(WikiTarget(markdown[c])))
        => /\ Len(sanitizedHtml[c]) >= 2
           /\ sanitizedHtml[c][2]
                = Node("a",
                       <<Class("obsidian-wikilink"), Attr("href", <<Lit("#")>>),
                         Attr("data-wikilink-disabled", <<>>)>>,
                       escapeHtml(WikiDisplay(markdown[c])))

\* The wikilink [[a|<script>...]] has returned as an anchor whose text is
\* the escaped markup.
C11_Witness ==
    /\ pc[1] = "returned"
    /\ markdown[1] = <<Inline(<<Open, Txt("a"), Pipe, Txt(ScriptText), Close>>)>>
    /\ sanitizedHtml[1][2].tag = "a"
    /\ sanitizedHtml[1][2].body = <<Lit(ScriptText)>>
    /\ AttrVal(sanitizedHtml[1][2], "href") = <<Lit("#")>>

\* The positions of the # of a paragraph that are not preceded by : or /
\* and are followed by a letter.
TagPositions(body) ==
    {i \in DOMAIN body :
        /\ body[i] = Hash
        /\ ~(i > 1 /\ body[i - 1] \in {Colon, Slash})
        /\ i < Len(body) /\ IsLetter(body[i + 1])}

TagSpans(html) == SelectSeq(html, LAMBDA n : n.tag = "span" /\ HasClass(n, "obsidian-tag"))

\* C12: a paragraph none of whose # may start a tag (each is preceded by
\* : or /, or not followed by a letter) has no obsidian-tag span; a
\* paragraph that is # and tag characters, the first a letter, is one
\* span over the whole tag.
C12_NoTagAfterColonOrSlash ==
    \A c \in Calls :
        (pc[c] = "returned" /\ IsInlineDoc(markdown[c]))
        => LET body == markdown[c][1].body
           IN  /\ TagPositions(body) = {} => TagSpans(sanitizedHtml[c]) = <<>>
               /\ (/\ TagPositions(body) = {1}
                   /\ \A i \in 2 .. Len(body) : IsTagChar(body[i]))
                  => TagSpans(sanitizedHtml[c])
                       = <<Node("span", <<Class("obsidian-tag")>>,
                                <<Lit("#")>> \o escapeHtml(Tail(body)))>>

\* ------------------------------------------------------------------------
\* Properties of embeds
\* ------------------------------------------------------------------------

IsEmbedDoc(md) == Len(md) = 1 /\ md[1].k = "embed"

\* The text after the last "." of a target, lower-cased; "" when the
\* target has no "." or nothing that is one word follows it.
ExtensionOf(target) ==
    LET dots == {i \in DOMAIN target : target[i] = Dot}
    IN  IF dots = {} \/ Max(dots) # Len(target) - 1 THEN ""
        ELSE Lower(target[Len(target)].s)

\* What the embed of a target is to be, by its extension.
EmbedKindOf(target) ==
    CASE ExtensionOf(target) \in imageExts -> "image"
      [] ExtensionOf(target) \in videoExts -> "video"
      [] ExtensionOf(target) \in audioExts -> "audio"
      [] OTHER -> "note"

HasClassLike(html, classes) ==
    \E i \in DOMAIN html : \E cls \in classes : HasClass(html[i], cls)

\* What the HTML of an embed shows it was rendered as.
RenderedKind(html) ==
    CASE HasClassLike(html, {"obsidian-embed-image", "obsidian-embed obsidian-embed-image"})
            -> "image"
      [] HasClassLike(html, {"obsidian-embed obsidian-embed-video"}) -> "video"
      [] HasClassLike(html, {"obsidian-embed obsidian-embed-audio"}) -> "audio"
      [] HasClassLike(html, {"obsidian-embed obsidian-embed-note",
                             "obsidian-embed obsidian-embed-note obsidian-embed-note-found"})
            -> "note"
      [] OTHER -> "none"

\* C13: an embed is rendered by the extension of its target, a target
\* without extension as a note; an image is <img> with src
\* /{slug}/_assets/{target} under a context with a slug and a placeholder
\* without <img> otherwise.
C13_EmbedDispatchByExtension ==
    \A c \in Calls :
        (pc[c] = "returned" /\ IsEmbedDoc(markdown[c]))
        => LET html   == sanitizedHtml[c]
               target == markdown[c][1].body
           IN  /\ RenderedKind(html) = EmbedKindOf(target)
               /\ EmbedKindOf(target) = "image" =>
                     IF OwnContext(c).slug # Undefined
                     THEN /\ html[2].tag = "img"
                          /\ AttrVal(html[2], "src")
                               = <<Lit("/"), Txt(OwnContext(c).slug), Lit("/_assets/")>>
                                 \o escapeHtml(target)
                     ELSE ~HasTag(html, "img")

\* ------------------------------------------------------------------------
\* Properties of math restoration
\* ------------------------------------------------------------------------

IsMathDoc(md) ==
    md # NotAString /\ \A i \in DOMAIN md :
        md[i].k = "para" /\ Len(md[i].body) = 1 /\ md[i].body[1].k = "math"

\* What is to stand for a math span: the fallback with the escaped
\* expression when the library throws on it, the KaTeX markup otherwise.
RestoredSpan(m) ==
    IF m.expression \in KatexThrowing
    THEN KatexError(m.expression, m.displayMode)
    ELSE Katex(m.expression, m.displayMode)

\* C14: when the library throws on an expression its placeholder becomes
\* the katex-error fallback with the escaped expression, every other
\* placeholder is restored, and the call does not reject.
C14_MathFailureIsPerExpression ==
    \A c \in Calls :
        IsMathDoc(markdown[c]) =>
            /\ pc[c] # "rejected"
            /\ pc[c] = "returned" =>
                  /\ Len(withMath[c]) = Len(markdown[c])
                  /\ \A i \in DOMAIN markdown[c] :
                        /\ withMath[c][i].body = <<RestoredSpan(markdown[c][i].body[1])>>
                        /\ sanitizedHtml[c][i].body = <<RestoredSpan(markdown[c][i].body[1])>>

\* ------------------------------------------------------------------------
\* Properties of extractTitle
\* ------------------------------------------------------------------------

\* The lines of the frontmatter block a document starts with.
FrontmatterLines(md) == IF HasFrontmatter(md) THEN LinesOf(md[1].body) ELSE <<>>

IsKeyLine(line, key) == Len(line) >= 2 /\ line[1] = Txt(key) /\ line[2] = Colon

\* The value a key: value line gives its key.
ValueOf(line) == TrimStr(SubSeq(line, 3, Len(line)))

\* The values of the title: lines of a frontmatter that have one.
TitleValues(md) ==
    {ValueOf(FrontmatterLines(md)[i]) :
        i \in {j \in DOMAIN FrontmatterLines(md) :
                  /\ IsKeyLine(FrontmatterLines(md)[j], "title")
                  /\ ValueOf(FrontmatterLines(md)[j]) # <<>>}}

\* The lines of the frontmatter that belong to another key than title.
OtherKeyLines(md) ==
    {FrontmatterLines(md)[i] :
        i \in {j \in DOMAIN FrontmatterLines(md) :
                  /\ FrontmatterLines(md)[j] # <<>>
                  /\ ~IsKeyLine(FrontmatterLines(md)[j], "title")}}

\* The texts of the first-level headings after the frontmatter, in order.
H1Texts(md) ==
    LET lines == LinesOf(stripFrontmatter(md))
        isH1(l) == Len(l) >= 3 /\ l[1] = Hash /\ l[2] = Space
    IN  [i \in DOMAIN SelectSeq(lines, isH1) |->
            TrimStr(SubSeq(SelectSeq(lines, isH1)[i], 3, Len(SelectSeq(lines, isH1)[i])))]

\* C15: extractTitle returns the unquoted value of the frontmatter title:
\* key when the frontmatter has a title: line with a value, heading or
\* not; otherwise the text of the first # heading after the frontmatter;
\* otherwise the fallback.  A frontmatter whose title: has no value never
\* makes the line of another key the title.
C15_TitlePreference ==
    meta.op = "extractTitle" =>
        LET md == meta.markdown
        IN  /\ IF TitleValues(md) # {}
               THEN meta.result \in {Unquote(v) : v \in TitleValues(md)}
               ELSE IF H1Texts(md) # <<>>
                    THEN meta.result = H1Texts(md)[1]
                    ELSE meta.result = meta.fallback
            /\ TitleValues(md) = {} => meta.result \notin OtherKeyLines(md)

\* ------------------------------------------------------------------------
\* Properties of extractDescription
\* ------------------------------------------------------------------------

HasDescriptionKey(md) ==
    \E i \in DOMAIN FrontmatterLines(md) : IsKeyLine(FrontmatterLines(md)[i], "description")

\* The cleaned lines of the first paragraph of a text: headings, code
\* blocks, embeds, rules and callout headers are passed over, and the
\* paragraph ends at the first blank line that comes after text.
RECURSIVE ParagraphLines(_, _, _)
ParagraphLines(lines, inCodeBlock, textLines) ==
    IF lines = <<>> THEN textLines
    ELSE LET line == Head(lines)
         IN  IF StartsWith(line, <<Backtick, Backtick, Backtick>>)
             THEN ParagraphLines(Tail(lines), ~inCodeBlock, textLines)
             ELSE IF inCodeBlock \/ SkippedLine(line)
             THEN ParagraphLines(Tail(lines), inCodeBlock, textLines)
             ELSE IF TrimStr(line) = <<>>
             THEN IF Concat(textLines) # <<>> THEN textLines
                  ELSE ParagraphLines(Tail(lines), inCodeBlock, textLines)
             ELSE ParagraphLines(Tail(lines), inCodeBlock,
                                 Append(textLines, CleanLine(TrimStr(line))))

FirstParagraph(md) ==
    TrimStr(JoinWith(ParagraphLines(LinesOf(stripFrontmatter(md)), FALSE, <<>>), Space))

\* C16: without a description: key in the frontmatter, extractDescription
\* returns the cleaned text of the first paragraph, which ends at the
\* first blank line after text; a text of more than 160 characters is
\* returned as its first 157 characters and "...", 160 characters in all;
\* without any text the fallback is returned.
C16_FirstParagraphTruncated ==
    (meta.op = "extractDescription" /\ ~HasDescriptionKey(meta.markdown)) =>
        LET text == FirstParagraph(meta.markdown)
        IN  IF StrLen(text) > MaxDescription
            THEN /\ meta.result = Substring(text, KeptDescription) \o Ellipsis
                 /\ StrLen(meta.result) = MaxDescription
            ELSE IF text # <<>> THEN meta.result = text
            ELSE meta.result = meta.fallback

\* ------------------------------------------------------------------------
\* Properties of the sanitizer on its own output
\* ------------------------------------------------------------------------

\* C17: sanitizing what renderMarkdown returned, with the configuration of
\* the pipeline, returns it unchanged.
C17_SanitizeIsIdempotent ==
    \A c \in Calls :
        pc[c] = "returned" =>
            Sanitize(sanitizedHtml[c], SANITIZE_CONFIG) = sanitizedHtml[c]

\* ------------------------------------------------------------------------
\* Properties of MarkdownViewer
\* ------------------------------------------------------------------------

\* C18: whenever initMermaid runs for a render, the content container is
\* in the DOM (contentEl is bound, the skeleton is gone), so that the
\* .mermaid elements of the document are processed: no run of initMermaid
\* returns for want of the container.
C18_MermaidRunsOnMountedHtml ==
    \A c \in Calls : viewer.flows[c].mermaid # "noContainer"

\* C19: once an initMermaid that found .mermaid elements is over, every
\* element that held code is rendered or marked as an error, a failure of
\* one diagram not stopping the others.
C19_EveryDiagramRenderedOrMarked ==
    \A c \in Calls :
        viewer.flows[c].mermaid \in {"importFailed", "looped"} =>
            \A i \in DOMAIN Els(viewer, c) :
                HasCode(Els(viewer, c)[i]) =>
                    Els(viewer, c)[i].state \in {"rendered", "error"}

\* C20: when a call of renderMarkdown made by the viewer rejects, the
\* continuation that handles it makes the fixed placeholder the rendered
\* HTML, and the mounted viewer always leaves the loading state again:
\* isRendering becomes false, whether the calls succeed or fail, from
\* onMount or from a change of content.
C20_FailureShowsPlaceholderAndLoadingEnds ==
    /\ [][\A c \in Calls :
            (/\ viewer.flows[c].at = "call"
             /\ pc[c] = "rejected"
             /\ viewer'.flows[c].at # "call")
            => viewer'.renderedHtml = ErrorPlaceholder]_vars
    /\ (viewer.mounted /\ viewer.isRendering) ~> ~viewer.isRendering

\* A continuation of the $effect has handled a rejection and is over, and
\* the container shows the placeholder.
C20_Witness ==
    /\ ~viewer.isRendering
    /\ viewer.dom = "content"
    /\ viewer.shown = ErrorPlaceholder
    /\ \E c \in Calls :
          /\ viewer.flows[c].kind = "effect"
          /\ viewer.flows[c].at = "done"
          /\ pc[c] = "rejected"

\* ------------------------------------------------------------------------
\* Properties of protectMath
\* ------------------------------------------------------------------------

\* The length of the run of grave accents that starts at i.
RunLength(s, i) ==
    LET others == {j \in i .. Len(s) : s[j] # Backtick}
    IN  IF others = {} THEN Len(s) - i + 1 ELSE Min(others) - i

\* The code spans of a paragraph as markdown defines them: a run of n
\* grave accents opens a span that the nearest later run of exactly n
\* grave accents closes; line ends may stand inside, a blank line may
\* not.  A run that follows a backslash is not taken for an opener.
RECURSIVE CodeSpansFrom(_, _)
CodeSpansFrom(s, i) ==
    IF i > Len(s) THEN {}
    ELSE IF s[i] # Backtick THEN CodeSpansFrom(s, i + 1)
    ELSE LET n       == RunLength(s, i)
             closers == {j \in i + n + 1 .. Len(s) :
                            /\ s[j] = Backtick /\ s[j - 1] # Backtick
                            /\ RunLength(s, j) = n}
             j       == IF closers = {} THEN 0 ELSE Min(closers)
         IN  IF \/ j = 0
                \/ i > 1 /\ s[i - 1] = Backslash
                \/ Cardinality({q \in i .. j : s[q] = Nl}) > 1
             THEN CodeSpansFrom(s, i + n)
             ELSE {[from |-> i, to |-> j + n - 1]} \cup CodeSpansFrom(s, j + n)

CodeSpans(text) == CodeSpansFrom(text, 1)

InsideCode(text, p) == \E sp \in CodeSpans(text) : sp.from <= p /\ p <= sp.to

\* The sum of the first p numbers of ws.
RECURSIVE SumTo(_, _)
SumTo(ws, p) == IF p <= 0 \/ ws = <<>> THEN 0 ELSE Head(ws) + SumTo(Tail(ws), p - 1)

\* The number of characters each atom of the text that was searched for
\* display math stands for: a sentinel stands for its code block.
ProtectedWidths(r) ==
    [q \in DOMAIN r.protected |->
        IF r.protected[q].k = "codeSentinel"
        THEN Len(r.codeBlocks[r.protected[q].n + 1].content) ELSE 1]

\* The characters of the text a call of createMathPlaceholder was made
\* for, as positions in the text given to protectMath.
DisplaySource(r, call) ==
    [from |-> SumTo(ProtectedWidths(r), call.from - 1) + 1,
     to   |-> SumTo(ProtectedWidths(r), call.to)]

\* The same for the text that was searched for inline math, in which a
\* placeholder stands for a display span.
AfterDisplayWidths(r) ==
    [q \in DOMAIN r.afterDisplay |->
        LET a == r.afterDisplay[q]
        IN  IF a.k = "codeSentinel" THEN Len(r.codeBlocks[a.n + 1].content)
            ELSE IF a.k = "ph"
            THEN LET d == CHOOSE d \in {r.display[x] : x \in DOMAIN r.display} : d.id = a
                 IN  DisplaySource(r, d).to - DisplaySource(r, d).from + 1
            ELSE 1]

InlineSource(r, call) ==
    [from |-> SumTo(AfterDisplayWidths(r), call.from - 1) + 1,
     to   |-> SumTo(AfterDisplayWidths(r), call.to)]

MathSources(r) ==
    {DisplaySource(r, r.display[q]) : q \in DOMAIN r.display}
        \cup {InlineSource(r, r.inline[q]) : q \in DOMAIN r.inline}

\* The texts that hold no NUL character.
NoSentinelIn(text) == \A i \in DOMAIN text : text[i].k # "codeSentinel"

\* C21: no math placeholder is created from a $-delimited span that starts
\* or ends inside a code span of the text.
C21_NoMathInsideCode ==
    (meta.op = "protectMath" /\ NoSentinelIn(meta.markdown)) =>
        \A src \in MathSources(meta.result) :
            /\ ~InsideCode(meta.markdown, src.from)
            /\ ~InsideCode(meta.markdown, src.to)

\* Whether part stands in str, character for character.
Occurs(part, str) ==
    \E i \in 1 .. Len(str) - Len(part) + 1 : SubSeq(str, i, i + Len(part) - 1) = part

\* C22: every code block protectMath set aside stands in what it returns
\* exactly as it stood in the text, and what it returns holds no sentinel.
C22_CodeRoundTrip ==
    (meta.op = "protectMath" /\ NoSentinelIn(meta.markdown)) =>
        /\ NoSentinelIn(meta.result.result)
        /\ \A q \in DOMAIN meta.result.codeBlocks :
              Occurs(meta.result.codeBlocks[q].content, meta.result.result)

\* Whether the character before position p of str is a backslash.
Escaped(str, p) == p > 1 /\ str[p - 1] = Backslash

\* C23: no placeholder, display or inline, is created for a span whose
\* opening delimiter starts at a $ that follows a backslash.
C23_EscapedDollarOpensNoMath ==
    meta.op = "protectMath" =>
        LET r == meta.result
        IN  /\ \A q \in DOMAIN r.display : ~Escaped(r.protected, r.display[q].from)
            /\ \A q \in DOMAIN r.inline : ~Escaped(r.afterDisplay, r.inline[q].from)

\* The positions of the $ characters of a text.
DollarPositions(text) == {i \in DOMAIN text : text[i] = Dollar}

\* A text outside code with one opener, $ or $$, and nothing that could
\* close it.
OpenerOnly(text) ==
    /\ \A i \in DOMAIN text : text[i] # Backtick
    /\ NoSentinelIn(text)
    /\ DollarPositions(text) # {}
    /\ Max(DollarPositions(text)) - Min(DollarPositions(text)) <= 1

\* C24: no placeholder is stored for an empty expression, and a text with
\* an opener and no closer is returned as it is, without a placeholder.
C24_EmptyAndUnterminatedAreLiteral ==
    meta.op = "protectMath" =>
        LET r == meta.result
        IN  /\ \A q \in DOMAIN r.ms.store : r.ms.store[q].expression # <<>>
            /\ OpenerOnly(meta.markdown) =>
                  r.result = meta.markdown /\ r.ms.store = <<>>

\* ------------------------------------------------------------------------
\* Properties of the placeholder ids
\* ------------------------------------------------------------------------

\* A document of one paragraph.
IsOneParagraph(md) == md # NotAString /\ Len(md) = 1 /\ md[1].k = "para"

\* The math spans of a paragraph.
SpansOf(body) == {i \in DOMAIN body : body[i].k = "math"}

\* C25: the ids of a render are pairwise distinct, one for every math
\* span, and text of the document is never taken for a placeholder: where
\* the document itself holds the characters of an id they are still there
\* after restoreMath, and every math span is replaced by its own
\* rendering.
C25_PlaceholdersDistinctAndUnforgeable ==
    \A c \in Calls :
        (pc[c] = "returned" /\ IsOneParagraph(markdown[c])) =>
            LET body == markdown[c][1].body
                out  == withMath[c][1].body
            IN  /\ Len(mathStore) = Cardinality(SpansOf(body))
                /\ \A i, j \in DOMAIN mathStore :
                      i # j => mathStore[i].id # mathStore[j].id
                /\ Len(out) = Len(body)
                /\ \A i \in DOMAIN body :
                      /\ body[i].k = "ph" => out[i] = body[i]
                      /\ body[i].k = "math" => out[i] = RestoredSpan(body[i])

\* ------------------------------------------------------------------------
\* Properties of the wikilink start
\* ------------------------------------------------------------------------

\* The [[ of src that no ! stands before.
LinkOpeners(src) == {i \in DOMAIN src : src[i] = Open /\ ~(i > 1 /\ src[i - 1] = Bang)}

\* The [[ of src that open an embed: a ! that is not escaped stands
\* before them.
EmbedOpeners(src) ==
    {i \in DOMAIN src :
        /\ src[i] = Open /\ i > 1 /\ src[i - 1] = Bang
        /\ ~(i > 2 /\ src[i - 2] = Backslash)}

\* The wikilink anchors of an HTML string.
WikilinkAnchors(html) ==
    {i \in DOMAIN html :
        /\ html[i].tag = "a"
        /\ \/ HasClass(html[i], "obsidian-wikilink")
           \/ HasClass(html[i], "obsidian-wikilink obsidian-wikilink-heading")}

\* C26: on the line and on every rest of it the lexer may hand to it,
\* start() returns -1 or the index of a [[ that no ! precedes; when the
\* first [[ follows a ! it returns the next [[ that opens no embed; and
\* no embed of the line is rendered as a wikilink.
C26_StartSkipsEmbeds ==
    \A c \in Calls :
        (pc[c] = "returned" /\ IsInlineDoc(markdown[c])) =>
            LET line == markdown[c][1].body
            IN  /\ \A k \in DOMAIN line :
                      LET src   == SubSeq(line, k, Len(line))
                          first == IndexFrom(src, Open, 1)
                          r     == WikilinkStart(src)
                      IN  /\ r = 0 \/ r \in LinkOpeners(src)
                          /\ (first # 0 /\ first \notin LinkOpeners(src)) =>
                                r = IF LinkOpeners(src) = {} THEN 0
                                    ELSE Min(LinkOpeners(src))
                /\ Cardinality(WikilinkAnchors(sanitizedHtml[c]))
                      <= Cardinality({i \in DOMAIN line : line[i] = Open})
                         - Cardinality(EmbedOpeners(line))

\* ------------------------------------------------------------------------
\* Properties of task list items
\* ------------------------------------------------------------------------

IsTaskDoc(md) == md # NotAString /\ Len(md) = 1 /\ md[1].k = "listitem"

\* The checkboxes of an HTML string.
Checkboxes(html) == {i \in DOMAIN html : html[i].tag = "input"}

\* C27: for a list item that is a task (task = true on its token) the
\* annotator attaches the character written between the brackets, and the
\* data-task of the rendered checkbox holds that character when it is in
\* the safe set.
C27_TaskStatusFromRawSource ==
    \A c \in Calls :
        (/\ pc[c] = "returned"
         /\ IsTaskDoc(markdown[c])
         /\ ListItemToken(markdown[c][1]).task) =>
            LET status == markdown[c][1].status
            IN  /\ walkTokensForTaskLists(ListItemToken(markdown[c][1])).taskStatus = status
                /\ status \in SafeStatusChars =>
                      \E i \in Checkboxes(sanitizedHtml[c]) :
                          AttrVal(sanitizedHtml[c][i], "data-task") = <<Txt(status)>>

\* What may stand in data-task: one character of the safe set, the
\* quotation mark as an entity, or a blank.
SafeDataTasks ==
    {<<Txt(ch)>> : ch \in SafeStatusChars \ {"\""}} \cup {<<Lit("&quot;")>>}

\* C28: the data-task of a task item is one character of the safe set,
\* the quotation mark written as an entity, or a blank, a status outside
\* the set giving the blank; a list item that is no task is a plain <li>
\* without a checkbox.
C28_DataTaskIsSafe ==
    meta.op = "listitem" =>
        LET token == meta.markdown
            html  == meta.result
        IN  IF token.task
            THEN /\ Cardinality(Checkboxes(html)) = 1
                 /\ \A i \in Checkboxes(html) :
                       /\ AttrVal(html[i], "data-task") \in SafeDataTasks
                       /\ token.taskStatus \notin SafeStatusChars \cup {Undefined, ""}
                             => AttrVal(html[i], "data-task") = <<Txt(" ")>>
            ELSE html = <<Node("li", <<>>, MarkedEscape(token.text))>>

\* A task item annotated with a status that would close the attribute was
\* rendered, and a blank stands in its data-task.
C28_Witness ==
    /\ meta.op = "listitem"
    /\ meta.markdown.task
    /\ meta.markdown.taskStatus = HandlerText
    /\ \E i \in Checkboxes(meta.result) :
          AttrVal(meta.result[i], "data-task") = <<Txt(" ")>>

\* ------------------------------------------------------------------------
\* Properties of the fallback of restoreMath
\* ------------------------------------------------------------------------

\* The escaped expression between $$ in the display error container, or
\* between $ in the inline error span.
ExpectedFallback(expression, displayMode) ==
    IF displayMode
    THEN <<ErrorDivOpen, Dollar, Dollar>> \o FallbackEscape(expression)
             \o <<Dollar, Dollar, ErrorDivClose>>
    ELSE <<ErrorSpanOpen, Dollar>> \o FallbackEscape(expression)
             \o <<Dollar, ErrorSpanClose>>

\* C29: when restoreMath falls back for an expression, what stands in the
\* place of the placeholder is the escaped expression between $$ in the
\* display error container, or between $ in the inline error span, the
\* HTML around it being unchanged.
C29_FallbackShowsRawExpression ==
    meta.op = "restoreMath" =>
        meta.result = <<Lit("<p>"), Txt("p")>>
                      \o ExpectedFallback(meta.markdown.expression,
                                          meta.markdown.displayMode)
                      \o <<Txt("q"), Lit("</p>")>>


\* ------------------------------------------------------------------------
\* Properties of the renders of the viewer
\* ------------------------------------------------------------------------

\* What the viewer shows for a content rendered on its own: the HTML that
\* renderMarkdown(content, { slug, folderItems }) resolves to, or the
\* placeholder of the catch when the call rejects.
RenderingOf(content) ==
    LET pre == preprocessMarkdown(content, EmptyStore)
        ctx == ContextOrEmpty(Some(ViewerContext))
    IN  IF pre.threw THEN ErrorPlaceholder
        ELSE Sanitize(restoreMath(MarkedParse(pre.text, ctx), pre.ms.store),
                      SANITIZE_CONFIG)

\* Every render the viewer started has settled and been handled, and the
\* $effect has run for the last change of the content.
RendersSettled ==
    /\ viewer.mounted
    /\ viewer.effect = "none"
    /\ viewer.queue = <<>>

\* Every continuation is over and the DOM is up to date.
ViewerAtRest ==
    /\ RendersSettled
    /\ \A c \in Calls : viewer.flows[c].at \in {"idle", "done"}
    /\ Flushed(viewer) = viewer

====
